---- MODULE Spec2Model ----
(***************************************************************************)
(* Model of the FreeCAD macros of sixbitdeep/3D_Models: the two seatbelt   *)
(* buckle sleeves, the two window camera mounts, the two TPU strip macros  *)
(* and the flowerpot antenna.                                              *)
(*                                                                         *)
(* Every macro is a straight-line script run against a host CAD session.   *)
(* A run is one action: it draws the macro's parameters and the host       *)
(* kernel's answers (edge sets, whether a fillet call raises) from small   *)
(* sets, lays out the statements the script executes in order (its         *)
(* "program"), cuts that list at the first statement whose exception is    *)
(* not caught, and applies the document calls of the executed prefix to    *)
(* the session.                                                            *)
(*                                                                         *)
(* Lengths are integers counting micrometres (1 mm = 1000).  Parameter     *)
(* values are even, so that the scripts' halvings (x / 2.0) are exact.     *)
(***************************************************************************)
EXTENDS Integers, Sequences, FiniteSets, TLC

VARIABLES docs, active, run, nruns

vars == <<docs, active, run, nruns>>

(***************************************************************************)
(* Bounds of the model.                                                    *)
(***************************************************************************)
\* script runs in one behaviour
MaxRuns == 2
\* largest suffix the host tries when it makes a name unique
MaxSuffix == 3

(***************************************************************************)
(* Arithmetic helpers.                                                     *)
(***************************************************************************)
Min(a, b) == IF a <= b THEN a ELSE b
Max(a, b) == IF a >= b THEN a ELSE b
Abs(a) == IF a >= 0 THEN a ELSE -a

\* x / 2 of the scripts, exact on the even values the model uses
Half(x) == x \div 2

\* math.ceil(a / b) for b # 0
CeilDiv(a, b) == IF b > 0 THEN -((-a) \div b) ELSE -(a \div (-b))

\* a clamp that keeps only the upper limit
clampNoFloor(val, lo, hi) == Min(hi, val)

\* clamp(val, lo, hi) of the mount and TPU macros
clamp(val, lo, hi) == Max(lo, Min(hi, val))

SeqToSet(s) == {s[i] : i \in 1..Len(s)}

\* x rounded to a multiple of unit, the nearest one; Python decides a tie by the binary
\* value of the float, the fixed-point model rounds it up
RoundTo(x, unit) == ((2 * x + unit) \div (2 * unit)) * unit

\* f"{x:.1f}" and f"{x:.2f}": the number a formatted line carries
Fixed1(x) == RoundTo(x, 100)
Fixed2(x) == RoundTo(x, 10)

(***************************************************************************)
(* Statements.  A program is a sequence of statement records:              *)
(*   op     the call ("makeBox", "cut", "makeFillet", "addObject", ...)    *)
(*   id     what it builds, removes, registers or raises                   *)
(*   dims   its numeric arguments                                          *)
(*   sel    the edges handed to a fillet call                              *)
(*   fails  the statement raises                                           *)
(*   caught the raise happens inside a try whose except continues          *)
(***************************************************************************)
Stmt(op, id, dims, sel, fails, caught) ==
    [op |-> op, id |-> id, dims |-> dims, sel |-> sel, fails |-> fails, caught |-> caught]

\* a statement that cannot raise
Do(op, id) == Stmt(op, id, <<>>, {}, FALSE, FALSE)

\* the statements of a branch that is taken only when cond holds
When(cond, stmts) == IF cond THEN stmts ELSE <<>>

\* raise ValueError(id): msg lists the numbers the message carries
Raise(id, msg) == Stmt("raise ValueError", id, msg, {}, TRUE, FALSE)

\* print(...): values lists the numbers the line carries
Log(id, values) == Stmt("print", id, values, {}, FALSE, FALSE)

(***************************************************************************)
(* Host kernel (Part).  The kernel refuses a primitive with a              *)
(* non-positive dimension; booleans on valid solids do not raise; a fillet *)
(* call may raise, as the host decides.                                    *)
(***************************************************************************)
KernelOps == {"makeBox", "makeCylinder", "makeCone", "makeSphere", "makeLine",
              "makeCircle", "Wire", "Face", "extrude", "fuse", "cut"}

NonPositive(dims) == \E i \in 1..Len(dims) : dims[i] <= 0

\* Part.makeBox(x, y, z), then translate(at): dims is <<x, y, z>> \o at
makeBox(id, x, y, z, at) ==
    Stmt("makeBox", id, <<x, y, z>> \o at, {}, NonPositive(<<x, y, z>>), FALSE)

\* Part.makeCylinder(r, h, ...) with its base point along the hole axis
makeCylinder(id, r, h, at) ==
    Stmt("makeCylinder", id, <<r, h>> \o at, {}, NonPositive(<<r, h>>), FALSE)

\* Part.makeCone(r1, r2, h)
makeCone(id, r1, r2, h) ==
    Stmt("makeCone", id, <<r1, r2, h>>, {}, r1 < 0 \/ r2 < 0 \/ h <= 0, FALSE)

fuse(id) == Do("fuse", id)
cut(id) == Do("cut", id)

translate(id, v) == Stmt("translate", id, v, {}, FALSE, FALSE)
rotate(id, axis, angle) == Stmt("rotate", id, axis \o <<angle>>, {}, FALSE, FALSE)

\* shape.makeFillet(radius, edges) with no try around it: what the fillet steps would
\* be without their except clauses
makeFilletUncaught(id, radius, edges, raises) ==
    Stmt("makeFillet", id, <<radius>>, edges, raises, FALSE)

\* shape.makeFillet(radius, edges) inside try/except: the host decides whether it raises
makeFilletCaught(id, radius, edges, raises) ==
    Stmt("makeFillet", id, <<radius>>, edges, raises, TRUE)

(***************************************************************************)
(* Execution: the statements up to and including the first uncaught raise. *)
(***************************************************************************)
Aborts(s) == s.fails /\ ~s.caught

FirstAbort(prog) ==
    IF \E i \in 1..Len(prog) : Aborts(prog[i])
    THEN CHOOSE i \in 1..Len(prog) : Aborts(prog[i]) /\ \A j \in 1..(i - 1) : ~Aborts(prog[j])
    ELSE 0

Executed(prog) == IF FirstAbort(prog) = 0 THEN prog ELSE SubSeq(prog, 1, FirstAbort(prog))

\* the exception that ends the run, "none" when it runs to its end
ErrorOf(prog) ==
    IF FirstAbort(prog) = 0 THEN "none"
    ELSE LET s == prog[FirstAbort(prog)] IN
         CASE s.op = "raise ValueError" -> "ValueError"
           [] s.op = "divide" -> "ZeroDivisionError"
           [] OTHER -> "KernelError"

(***************************************************************************)
(* Host session: the open documents, each a set of object names, and the   *)
(* active document.  A name is <<requested name, suffix>>; suffix 0 is the *)
(* requested name itself (WindowCameraMount, then WindowCameraMount001).   *)
(***************************************************************************)
NoDoc == <<"", 0>>

\* the name the host gives: the requested one, or the first free suffixed one
UniqueName(base, taken) ==
    <<base, CHOOSE k \in 0..(MaxSuffix + 1) :
                /\ <<base, k>> \notin taken
                /\ \A j \in 0..(k - 1) : <<base, j>> \in taken>>

CanName(base, taken) == \E k \in 0..MaxSuffix : <<base, k>> \notin taken

\* doc.getObject(name)
getObject(sess, name) ==
    sess.active # NoDoc /\ <<name, 0>> \in sess.docs[sess.active]

\* one document call applied to the session
ApplyHost(sess, s) ==
    CASE s.op = "newDocument" ->
           LET n == UniqueName(s.id, DOMAIN sess.docs) IN
           [docs |-> [d \in (DOMAIN sess.docs) \cup {n} |->
                         IF d = n THEN {} ELSE sess.docs[d]],
            active |-> n]
      [] s.op = "closeDocument" ->
           [docs |-> [d \in (DOMAIN sess.docs) \ {<<s.id, 0>>} |-> sess.docs[d]],
            active |-> NoDoc]
      [] s.op = "removeObject" ->
           [sess EXCEPT !.docs[sess.active] = @ \ {<<s.id, 0>>}]
      [] s.op = "addObject" ->
           [sess EXCEPT !.docs[sess.active] = @ \cup {UniqueName(s.id, @)}]
      [] OTHER -> sess

HostOps == {"newDocument", "closeDocument", "removeObject", "addObject"}

RECURSIVE ApplyCalls(_, _)
ApplyCalls(sess, calls) ==
    IF calls = <<>> THEN sess
    ELSE ApplyCalls(ApplyHost(sess, Head(calls)), Tail(calls))

\* the session after the document calls of a trace, in order
ApplyTrace(sess, trace) ==
    ApplyCalls(sess, SelectSeq(trace, LAMBDA s : s.op \in HostOps))

Session == [docs |-> docs, active |-> active]

\* doc = App.ActiveDocument; if doc is None: doc = App.newDocument(name)
EnsureDoc(sess, name) == When(sess.active = NoDoc, <<Do("newDocument", name)>>)

\* a script without the clean-rerun block: nothing is removed
NoCleanRerun(sess, names) == <<>>

RECURSIVE CleanRerun(_, _)
\* for obj_name in names: if doc.getObject(obj_name): doc.removeObject(obj_name)
CleanRerun(sess, names) ==
    IF names = <<>> THEN <<>>
    ELSE When(getObject(sess, Head(names)), <<Do("removeObject", Head(names))>>)
         \o CleanRerun(sess, Tail(names))

\* the solid a run ends with: the boolean and fillet calls that succeeded, in order
ShapeHistory(trace) ==
    SelectSeq(trace, LAMBDA s : s.op \in {"cut", "fuse", "makeFillet"} /\ ~s.fails)

\* the objects of the active document registered under a requested name
Copies(sess, base) ==
    IF sess.active = NoDoc THEN {}
    ELSE {o \in sess.docs[sess.active] : o[1] = base}

(***************************************************************************)
(* Edges, as the kernel describes them: a length and a bounding box.       *)
(***************************************************************************)
Edge(id, len, x0, x1, y0, y1, z0, z1) ==
    [id |-> id, Length |-> len, XMin |-> x0, XMax |-> x1, YMin |-> y0, YMax |-> y1,
     ZMin |-> z0, ZMax |-> z1]

XLength(e) == e.XMax - e.XMin
YLength(e) == e.YMax - e.YMin
ZLength(e) == e.ZMax - e.ZMin

Ids(edges) == {e.id : e \in edges}

\* the edge sets the kernel may answer with: none, or all of the universe
EdgeScenarios(universe) == {{}, universe}

\* edges of a sleeve of outer size od x ow x h with walls of thickness w
SleeveEdges(od, ow, h, w) ==
    { Edge("corner", h, 0, 0, 0, 0, 0, h),
      Edge("far_corner", h, od, od, ow, ow, 0, h),
      Edge("cavity", h, w, w, w, w, 0, h),
      Edge("top", od, 0, od, 0, 0, h, h),
      Edge("bottom", od, 0, od, 0, 0, 0, 0) }

(***************************************************************************)
(* C-shape seatbelt buckle sleeve (car/C_shaoe_seatbelt_buckle_sleeve.py). *)
(***************************************************************************)
C_buckle_width == 51600
C_buckle_depth == 33300
C_sleeve_height == 25000
C_clearance == 800
C_wall == 2500
C_corner_radius == 6000
C_top_rim_radius == 1200
C_slot_width == 14000
C_slot_relief == 0

C_Defaults ==
    [buckle_width |-> C_buckle_width, buckle_depth |-> C_buckle_depth,
     sleeve_height |-> C_sleeve_height, clearance |-> C_clearance, wall |-> C_wall,
     corner_radius |-> C_corner_radius, top_rim_radius |-> C_top_rim_radius,
     slot_width |-> C_slot_width, slot_side |-> "right", slot_relief |-> C_slot_relief]

\* wall thicknesses tried: far below zero, zero, as shipped; the slot is also tried
\* 38 mm wide, nearly the outer depth of 39.9 mm, and the radii 25 mm and 4 mm, above
\* half the outer depth and above the wall
WallValues == {-30000, 0, C_wall}

C_Params ==
    { [C_Defaults EXCEPT !.wall = w, !.corner_radius = c, !.top_rim_radius = t] :
        w \in WallValues, c \in {0, C_corner_radius}, t \in {0, C_top_rim_radius} }
    \cup { [C_Defaults EXCEPT !.slot_side = "left"] }
    \cup { [C_Defaults EXCEPT !.slot_width = 38000, !.slot_side = side] :
             side \in {"left", "right"} }
    \cup { [C_Defaults EXCEPT !.corner_radius = 25000, !.top_rim_radius = 4000] }

\* derived sizes with the clearance added on one side only
C_DerivedOneClearance(p) ==
    LET inner_w == p.buckle_width + p.clearance
        inner_d == p.buckle_depth + p.clearance
    IN [inner_w |-> inner_w, inner_d |-> inner_d,
        outer_w |-> inner_w + 2 * p.wall, outer_d |-> inner_d + 2 * p.wall]

\* derived sizes
C_Derived(p) ==
    LET inner_w == p.buckle_width + 2 * p.clearance
        inner_d == p.buckle_depth + 2 * p.clearance
    IN [inner_w |-> inner_w, inner_d |-> inner_d,
        outer_w |-> inner_w + 2 * p.wall, outer_d |-> inner_d + 2 * p.wall]

\* step 6: full-height vertical edges at the outer corners
C_IsCornerEdge(e, p) ==
    LET d == C_Derived(p)
        mid_x == Half(e.XMin + e.XMax)
        mid_y == Half(e.YMin + e.YMax)
    IN /\ e.Length * 10 > p.sleeve_height * 8
       /\ XLength(e) < 100 /\ YLength(e) < 100
       /\ (mid_x < Half(p.wall) \/ mid_x > d.outer_d - Half(p.wall))
       /\ (mid_y < Half(p.wall) \/ mid_y > d.outer_w - Half(p.wall))

\* shape.Edges after the slot cut: the edges of a sleeve, its other two outer corners,
\* the cavity corner opposite, and the two vertical edges the slot cutter leaves in the
\* outer face of the wall it opens (Y = outer_w on the right, Y = 0 on the left)
C_Edges(p) ==
    LET d == C_Derived(p)
        h == p.sleeve_height
        slot_x_start == Half(d.outer_d - p.slot_width)
        slot_y == IF p.slot_side = "right" THEN d.outer_w ELSE 0
    IN SleeveEdges(d.outer_d, d.outer_w, h, p.wall)
       \cup { Edge("corner_x", h, d.outer_d, d.outer_d, 0, 0, 0, h),
              Edge("corner_y", h, 0, 0, d.outer_w, d.outer_w, 0, h),
              Edge("far_cavity", h, p.wall + d.inner_d, p.wall + d.inner_d,
                   p.wall + d.inner_w, p.wall + d.inner_w, 0, h),
              Edge("slot_near", h, slot_x_start, slot_x_start, slot_y, slot_y, 0, h),
              Edge("slot_far", h, slot_x_start + p.slot_width, slot_x_start + p.slot_width,
                   slot_y, slot_y, 0, h) }

\* step 7: edges lying at Z = sleeve_height
C_IsTopEdge(e, p) ==
    Abs(e.ZMin - p.sleeve_height) < 500 /\ Abs(e.ZMax - p.sleeve_height) < 500

\* the kernel's answers to one run: the edges of the solid, the fillet steps that raise
C_Kernel(p) ==
    { [edges |-> es, raises |-> rs] :
        es \in EdgeScenarios(C_Edges(p)),
        rs \in SUBSET {"vertical", "top"} }

C_Names == <<"BuckleSleeveC", "OuterBox", "InnerCavity", "SlotCutter", "LeadInCutter">>

\* the statements of one run of the script
C_Program(sess, p, k) ==
    LET d == C_Derived(p)
        slot_y_start == IF p.slot_side = "right"
                        THEN p.wall + d.inner_w - p.slot_relief ELSE -1000
        slot_x_start == Half(d.outer_d - p.slot_width)
        edges_to_fillet == {e \in k.edges : C_IsCornerEdge(e, p)}
        top_edges == {e \in k.edges : C_IsTopEdge(e, p)}
    IN EnsureDoc(sess, "Buckle_Sleeve_Cshape")
       \o CleanRerun(sess, C_Names)
       \o << Do("recompute", "doc"),
              makeBox("outer", d.outer_d, d.outer_w, p.sleeve_height, <<0, 0, 0>>),
              makeBox("inner", d.inner_d, d.inner_w, p.sleeve_height + 2000,
                      <<p.wall, p.wall, -1000>>),
              cut("inner"),
              makeBox("slot_cutter", p.slot_width, p.wall + 2000 + p.slot_relief,
                      p.sleeve_height + 2000, <<slot_x_start, slot_y_start, -1000>>),
              cut("slot_cutter") >>
       \o When(edges_to_fillet # {} /\ p.corner_radius > 0,
               << makeFilletCaught("vertical", p.corner_radius, Ids(edges_to_fillet),
                                   "vertical" \in k.raises) >>
               \o When("vertical" \in k.raises,
                       << Log("Fillet on vertical edges failed", <<>>),
                          Log("Continuing without vertical fillets", <<>>) >>))
       \o When(p.top_rim_radius > 0 /\ top_edges # {},
               << makeFilletCaught("top", p.top_rim_radius, Ids(top_edges),
                                   "top" \in k.raises) >>
               \o When("top" \in k.raises,
                       << Log("Fillet on top edges failed", <<>>),
                          Log("Continuing without top rim fillet", <<>>) >>))
       \o << Do("addObject", "BuckleSleeveC"),
              Do("recompute", "doc"),
              Log("Outer dimensions",
                  <<Fixed1(d.outer_d), Fixed1(d.outer_w), Fixed1(p.sleeve_height)>>),
              Log("Inner cavity", <<Fixed1(d.inner_d), Fixed1(d.inner_w)>>),
              Log("Wall thickness", <<Fixed1(p.wall)>>),
              Log("Side slot width", <<Fixed1(p.slot_width)>>) >>

(***************************************************************************)
(* Enclosed seatbelt buckle sleeve (car/seatbelt_buckle_sleeve.py).        *)
(***************************************************************************)
E_buckle_width == 48600
E_buckle_depth == 32300
E_sleeve_height == 28400
E_clearance == 800
E_wall == 2500
E_outer_corner_radius == 6000
E_inner_corner_radius == 8000
E_top_rim_radius == 1200
E_bottom_rim_radius == 1200

E_Defaults ==
    [buckle_width |-> E_buckle_width, buckle_depth |-> E_buckle_depth,
     sleeve_height |-> E_sleeve_height, clearance |-> E_clearance, wall |-> E_wall,
     outer_corner_radius |-> E_outer_corner_radius,
     inner_corner_radius |-> E_inner_corner_radius,
     top_rim_radius |-> E_top_rim_radius, bottom_rim_radius |-> E_bottom_rim_radius]

\* among them: an inner corner radius far beyond half of any side (90 mm), and the
\* buckle of the C-shape sleeve
E_Params ==
    { [E_Defaults EXCEPT !.wall = w, !.top_rim_radius = t, !.bottom_rim_radius = b] :
        w \in WallValues, t \in {0, E_top_rim_radius}, b \in {0, E_bottom_rim_radius} }
    \cup { [E_Defaults EXCEPT !.outer_corner_radius = 0],
           [E_Defaults EXCEPT !.inner_corner_radius = 0],
           [E_Defaults EXCEPT !.inner_corner_radius = 90000],
           [E_Defaults EXCEPT !.buckle_width = C_buckle_width,
                              !.buckle_depth = C_buckle_depth] }

\* derived sizes with the wall added on one side only
E_DerivedOneWall(p) ==
    LET inner_w == p.buckle_width + 2 * p.clearance
        inner_d == p.buckle_depth + 2 * p.clearance
    IN [inner_w |-> inner_w, inner_d |-> inner_d,
        outer_w |-> inner_w + p.wall, outer_d |-> inner_d + p.wall]

\* derived sizes
E_Derived(p) ==
    LET inner_w == p.buckle_width + 2 * p.clearance
        inner_d == p.buckle_depth + 2 * p.clearance
    IN [inner_w |-> inner_w, inner_d |-> inner_d,
        outer_w |-> inner_w + 2 * p.wall, outer_d |-> inner_d + 2 * p.wall]

\* the radius make_rounded_box would use without its clamp
RoundedRadiusUnclamped(length_x, width_y, corner_r) ==
    IF corner_r > 0 THEN corner_r ELSE 0

\* make_rounded_box: the radius it uses
RoundedRadius(length_x, width_y, corner_r) ==
    LET max_r == Half(Min(length_x, width_y)) - 100
    IN IF corner_r > 0 THEN Min(corner_r, max_r) ELSE 0

\* Part.makeLine(p1, p2) in the plane z = 0; the kernel refuses a line of no length
makeLine(id, x1, y1, x2, y2) ==
    Stmt("makeLine", id, <<x1, y1, x2, y2>>, {}, x1 = x2 /\ y1 = y2, FALSE)

\* Part.makeCircle(r, centre, (0, 0, 1), a1, a2): the arc from angle a1 to a2, in degrees
makeCircle(id, r, cx, cy, a1, a2) ==
    Stmt("makeCircle", id, <<r, cx, cy, a1, a2>>, {}, r <= 0, FALSE)

\* make_rounded_box(length_x, width_y, height_z, corner_r): the kernel calls it issues
make_rounded_box(id, length_x, width_y, height_z, corner_r) ==
    LET r == RoundedRadius(length_x, width_y, corner_r) IN
    IF r > 0
    THEN << makeLine("bottom", r, 0, length_x - r, 0),
            makeCircle("bottom_right", r, length_x - r, r, -90, 0),
            makeLine("right", length_x, r, length_x, width_y - r),
            makeCircle("top_right", r, length_x - r, width_y - r, 0, 90),
            makeLine("top", length_x - r, width_y, r, width_y),
            makeCircle("top_left", r, r, width_y - r, 90, 180),
            makeLine("left", 0, width_y - r, 0, r),
            makeCircle("bottom_left", r, r, r, 180, 270),
            Do("Wire", id),
            Do("Face", id),
            Stmt("extrude", id, <<height_z>>, {}, height_z <= 0, FALSE) >>
    ELSE << makeBox(id, length_x, width_y, height_z, <<0, 0, 0>>) >>

\* step 4: edges lying at Z = sleeve_height
E_IsTopEdge(e, p) ==
    Abs(e.ZMin - p.sleeve_height) < 500 /\ Abs(e.ZMax - p.sleeve_height) < 500

\* step 5: edges lying at Z = 0
E_IsBottomEdge(e) == Abs(e.ZMin) < 500 /\ Abs(e.ZMax) < 500

\* the kernel's answers to one run: the edges of the solid, the fillet steps that raise
E_Kernel(p) ==
    LET d == E_Derived(p) IN
    { [edges |-> es, raises |-> rs] :
        es \in EdgeScenarios(SleeveEdges(d.outer_d, d.outer_w, p.sleeve_height, p.wall)),
        rs \in SUBSET {"top", "bottom"} }

E_Names == <<"BuckleSleeveEnclosed", "OuterBox", "InnerCavity">>

\* the statements of one run of the script
E_Program(sess, p, k) ==
    LET d == E_Derived(p)
        top_edges == {e \in k.edges : E_IsTopEdge(e, p)}
        bottom_edges == {e \in k.edges : E_IsBottomEdge(e)}
    IN EnsureDoc(sess, "Buckle_Sleeve_Enclosed")
       \o CleanRerun(sess, E_Names)
       \o << Do("recompute", "doc") >>
       \o make_rounded_box("outer", d.outer_d, d.outer_w, p.sleeve_height,
                           p.outer_corner_radius)
       \o make_rounded_box("inner", d.inner_d, d.inner_w, p.sleeve_height + 2000,
                           p.inner_corner_radius)
       \o << translate("inner", <<p.wall, p.wall, -1000>>),
              cut("inner") >>
       \o When(p.top_rim_radius > 0 /\ top_edges # {},
               << makeFilletCaught("top", p.top_rim_radius, Ids(top_edges),
                                   "top" \in k.raises) >>
               \o When("top" \in k.raises,
                       << Log("Fillet on top edges failed", <<>>),
                          Log("Continuing without top rim fillet", <<>>) >>))
       \o When(p.bottom_rim_radius > 0 /\ bottom_edges # {},
               << makeFilletCaught("bottom", p.bottom_rim_radius, Ids(bottom_edges),
                                   "bottom" \in k.raises) >>
               \o When("bottom" \in k.raises,
                       << Log("Fillet on bottom edges failed", <<>>),
                          Log("Continuing without bottom rim fillet", <<>>) >>))
       \o << Do("addObject", "BuckleSleeveEnclosed"),
              Do("recompute", "doc"),
              Log("Outer dimensions",
                  <<Fixed1(d.outer_d), Fixed1(d.outer_w), Fixed1(p.sleeve_height)>>),
              Log("Inner cavity", <<Fixed1(d.inner_d), Fixed1(d.inner_w)>>),
              Log("Wall thickness", <<Fixed1(p.wall)>>),
              Log("Outer corner radius", <<Fixed1(p.outer_corner_radius)>>),
              Log("Inner corner radius", <<Fixed1(p.inner_corner_radius)>>) >>

(***************************************************************************)
(* Window camera mount, first macro                                        *)
(* (mounts/FreeCAD_Tapo_C217_Window_Clip_Mount_Macro.py).                  *)
(***************************************************************************)
V1_INSIDE_HEIGHT == 39200
V1_INSIDE_THICKNESS == 3000
V1_INSIDE_FORWARD_SHIFT == 3800
V1_INSIDE_TOP_SEGMENT_HEIGHT == 8000
V1_INSIDE_CONNECT_HEIGHT == 4000
V1_BACK_TRIM_EXTRA == 0
V1_LIP_LENGTH == 16350
V1_LIP_THICKNESS == 2000
V1_HORIZONTAL_LENGTH == 105000
V1_HORIZONTAL_THICKNESS == 4000
V1_OUTSIDE_LENGTH == 70000
V1_OUTSIDE_THICKNESS == 4000
V1_WIDTH == 54000
V1_HOLE_DIAMETER == 6350
V1_HOLE_OFFSET_FROM_BOTTOM == 20000
V1_HOLE_SPACING_Y == 35350
V1_HOLE_2_OFFSET == 3500
V1_HOLE_PAIR_SHIFT == -1750
V1_MIN_EDGE_MARGIN_Y == 2500
V1_FILLET_RADIUS == 3000
V1_POCKET_X_START == 2000
V1_POCKET_LENGTH == 24000
V1_POCKET_Y_MARGIN == 4000
V1_POCKET_DEPTH == 1800
V1_MIN_FLOOR_THICKNESS == 1200

V1_Defaults ==
    [INSIDE_HEIGHT |-> V1_INSIDE_HEIGHT, INSIDE_THICKNESS |-> V1_INSIDE_THICKNESS,
     INSIDE_FORWARD_SHIFT |-> V1_INSIDE_FORWARD_SHIFT,
     INSIDE_TOP_SEGMENT_HEIGHT |-> V1_INSIDE_TOP_SEGMENT_HEIGHT,
     INSIDE_CONNECT_HEIGHT |-> V1_INSIDE_CONNECT_HEIGHT,
     BACK_TRIM_ENABLE |-> TRUE, BACK_TRIM_TO_X |-> V1_INSIDE_FORWARD_SHIFT,
     BACK_TRIM_EXTRA |-> V1_BACK_TRIM_EXTRA, BACK_TRIM_KEEP_BELOW_CONNECT |-> TRUE,
     LIP_LENGTH |-> V1_LIP_LENGTH, LIP_THICKNESS |-> V1_LIP_THICKNESS,
     HORIZONTAL_LENGTH |-> V1_HORIZONTAL_LENGTH,
     HORIZONTAL_THICKNESS |-> V1_HORIZONTAL_THICKNESS,
     OUTSIDE_LENGTH |-> V1_OUTSIDE_LENGTH, OUTSIDE_THICKNESS |-> V1_OUTSIDE_THICKNESS,
     WIDTH |-> V1_WIDTH, HOLE_DIAMETER |-> V1_HOLE_DIAMETER,
     HOLE_OFFSET_FROM_BOTTOM |-> V1_HOLE_OFFSET_FROM_BOTTOM, SECOND_HOLE |-> TRUE,
     HOLE_SPACING_Y |-> V1_HOLE_SPACING_Y, HOLE_2_OFFSET |-> V1_HOLE_2_OFFSET,
     HOLE_PAIR_SHIFT |-> V1_HOLE_PAIR_SHIFT, MIN_EDGE_MARGIN_Y |-> V1_MIN_EDGE_MARGIN_Y,
     CENTER_HOLES_Z |-> TRUE, FILLET_RADIUS |-> V1_FILLET_RADIUS,
     POCKET_ENABLE_TOP |-> TRUE, POCKET_ENABLE_BOTTOM |-> FALSE,
     POCKET_X_START |-> V1_POCKET_X_START, POCKET_LENGTH |-> V1_POCKET_LENGTH,
     POCKET_Y_MARGIN |-> V1_POCKET_Y_MARGIN, POCKET_DEPTH |-> V1_POCKET_DEPTH,
     MIN_FLOOR_THICKNESS |-> V1_MIN_FLOOR_THICKNESS]

\* pair shifts tried: as shipped, far toward Y = 0, far toward Y = WIDTH
PairShifts == {-1750, -12000, 40000}

\* the hole parameters tried with a macro's shipped values; the last pushes hole 2
\* past its margin
HoleVariants(defaults) ==
    { [defaults EXCEPT !.HOLE_PAIR_SHIFT = s, !.SECOND_HOLE = b] :
        s \in PairShifts, b \in BOOLEAN }
    \cup { [defaults EXCEPT !.HOLE_2_OFFSET = 12000] }

V1_Params ==
    HoleVariants(V1_Defaults)
    \cup { [V1_Defaults EXCEPT !.FILLET_RADIUS = 0],
           [V1_Defaults EXCEPT !.POCKET_ENABLE_BOTTOM = TRUE],
           [V1_Defaults EXCEPT !.BACK_TRIM_ENABLE = FALSE],
           [V1_Defaults EXCEPT !.BACK_TRIM_KEEP_BELOW_CONNECT = FALSE] }

\* edges of a mount of the given width: a long one, a short one, a point-like one
MountEdges(width) ==
    { Edge("long", width, 0, 0, 0, width, 0, 0),
      Edge("short", 4000, 0, 4000, 0, 0, 0, 0),
      Edge("tiny", 100, 0, 100, 0, 0, 0, 0) }

\* the kernel's answers to one mount run: the edges of the bracket, the calls that raise
MountKernel(p) ==
    { [edges |-> es, raises |-> rs] :
        es \in EdgeScenarios(MountEdges(p.WIDTH)),
        rs \in {{}, {"makeFillet"}, {"removeSplitter"}} }

\* the edges safe_fillet keeps
V1_IsSafeEdge(e) ==
    /\ ~(XLength(e) < 250 /\ YLength(e) < 250 /\ ZLength(e) < 250)
    /\ Max(XLength(e), Max(YLength(e), ZLength(e))) >= 15000

\* safe_fillet without its test of the radius
V1_safe_filletAnyRadius(radius, k) ==
    LET edges == {e \in k.edges : V1_IsSafeEdge(e)} IN
    << Stmt("removeSplitter", "bracket", <<>>, {}, "removeSplitter" \in k.raises, TRUE) >>
    \o (IF edges = {}
        THEN << Log("Note: No safe edges detected for fillet; skipping fillet", <<>>) >>
        ELSE << makeFilletCaught("safe", radius, Ids(edges), "makeFillet" \in k.raises) >>
             \o When("makeFillet" \in k.raises,
                     << Log("Note: Fillet failed; skipping fillet", <<>>) >>))

\* safe_fillet(shape, radius)
V1_safe_fillet(radius, k) ==
    LET edges == {e \in k.edges : V1_IsSafeEdge(e)} IN
    When(radius > 0,
         << Stmt("removeSplitter", "bracket", <<>>, {}, "removeSplitter" \in k.raises, TRUE) >>
         \o (IF edges = {}
             THEN << Log("Note: No safe edges detected for fillet; skipping fillet", <<>>) >>
             ELSE << makeFilletCaught("safe", radius, Ids(edges), "makeFillet" \in k.raises) >>
                  \o When("makeFillet" \in k.raises,
                          << Log("Note: Fillet failed; skipping fillet", <<>>) >>)))

\* hole placement: the centres and the bounds they are checked against
V1_Holes(p) ==
    LET y_center == Half(p.WIDTH)
        hole_r == Half(p.HOLE_DIAMETER)
    IN [y1 |-> y_center + p.HOLE_PAIR_SHIFT - Half(p.HOLE_SPACING_Y),
        y2 |-> y_center + p.HOLE_PAIR_SHIFT + Half(p.HOLE_SPACING_Y) + p.HOLE_2_OFFSET,
        hole_r |-> hole_r,
        min_y |-> hole_r + p.MIN_EDGE_MARGIN_Y,
        max_y |-> p.WIDTH - hole_r - p.MIN_EDGE_MARGIN_Y]

\* the validations without the one of hole 1
V1_HoleChecksHole2Only(p) ==
    LET h == V1_Holes(p) IN
    When(p.SECOND_HOLE /\ h.y2 > h.max_y,
         << Raise("Hole 2 is too close to edge", <<Fixed2(h.y2), Fixed2(h.max_y)>>) >>)

\* the two validations of the hole positions
V1_HoleChecks(p) ==
    LET h == V1_Holes(p) IN
    When(h.y1 < h.min_y,
         << Raise("Hole 1 is too close to edge", <<Fixed2(h.y1), Fixed2(h.min_y)>>) >>)
    \o When(p.SECOND_HOLE /\ h.y2 > h.max_y,
            << Raise("Hole 2 is too close to edge", <<Fixed2(h.y2), Fixed2(h.max_y)>>) >>)

\* create_camera_mount(): the statements of one run
V1_Program(sess, p, k) ==
    LET top_h == clamp(p.INSIDE_TOP_SEGMENT_HEIGHT, 1000, p.INSIDE_HEIGHT)
        bot_h == Max(100, p.INSIDE_HEIGHT - top_h)
        conn_h == clamp(p.INSIDE_CONNECT_HEIGHT, 500, top_h)
        trim_to_x == p.BACK_TRIM_TO_X - p.BACK_TRIM_EXTRA
        z_top == IF p.BACK_TRIM_KEEP_BELOW_CONNECT
                 THEN p.HORIZONTAL_THICKNESS + bot_h - conn_h
                 ELSE p.HORIZONTAL_THICKNESS + bot_h
        horizontal_actual_length == p.HORIZONTAL_LENGTH - p.INSIDE_FORWARD_SHIFT
        x0 == clamp(p.POCKET_X_START, 0, Max(0, p.HORIZONTAL_LENGTH - 1000))
        x1 == clamp(x0 + p.POCKET_LENGTH, x0 + 1000, p.HORIZONTAL_LENGTH)
        pocket_len == x1 - x0
        y0 == clamp(p.POCKET_Y_MARGIN, 0, Half(p.WIDTH))
        pocket_w == Max(1000, p.WIDTH - 2 * y0)
        max_depth_allowed == Max(100, p.HORIZONTAL_THICKNESS - p.MIN_FLOOR_THICKNESS)
        depth == clamp(p.POCKET_DEPTH, 100, max_depth_allowed)
        xh == p.HORIZONTAL_LENGTH - p.OUTSIDE_THICKNESS - 1000
        hole_offset == IF p.CENTER_HOLES_Z THEN Half(p.OUTSIDE_LENGTH)
                       ELSE p.HOLE_OFFSET_FROM_BOTTOM
        zh == -p.OUTSIDE_LENGTH + p.HORIZONTAL_THICKNESS + hole_offset
        h == V1_Holes(p)
    IN EnsureDoc(sess, "CameraMount")
       \o << makeBox("inside_bottom", p.INSIDE_THICKNESS, p.WIDTH, bot_h,
                     <<p.INSIDE_FORWARD_SHIFT, 0, p.HORIZONTAL_THICKNESS>>),
             makeBox("inside_top", p.INSIDE_THICKNESS, p.WIDTH, top_h,
                     <<0, 0, p.HORIZONTAL_THICKNESS + bot_h>>),
             makeBox("connector", p.INSIDE_FORWARD_SHIFT + p.INSIDE_THICKNESS, p.WIDTH,
                     conn_h, <<0, 0, p.HORIZONTAL_THICKNESS + bot_h - conn_h>>),
             fuse("inside_top"),
             fuse("connector") >>
       \o When(p.BACK_TRIM_ENABLE,
               << makeBox("trim_box", 400000, p.WIDTH + 40000, z_top + 80000,
                          <<-400000 + trim_to_x, -20000, -80000>>),
                  cut("trim_box") >>)
       \o << makeBox("clip_lip", p.LIP_LENGTH, p.WIDTH, p.LIP_THICKNESS,
                     <<p.INSIDE_THICKNESS, 0,
                       p.HORIZONTAL_THICKNESS + p.INSIDE_HEIGHT - p.LIP_THICKNESS>>),
             makeBox("horizontal", horizontal_actual_length, p.WIDTH,
                     p.HORIZONTAL_THICKNESS, <<p.INSIDE_FORWARD_SHIFT, 0, 0>>),
             makeBox("outside_arm", p.OUTSIDE_THICKNESS, p.WIDTH, p.OUTSIDE_LENGTH,
                     <<p.HORIZONTAL_LENGTH - p.OUTSIDE_THICKNESS, 0,
                       -p.OUTSIDE_LENGTH + p.HORIZONTAL_THICKNESS>>),
             fuse("horizontal"),
             fuse("outside_arm"),
             fuse("clip_lip") >>
       \o When(p.POCKET_ENABLE_TOP,
               << makeBox("top_pocket", pocket_len, pocket_w, depth,
                          <<x0, y0, p.HORIZONTAL_THICKNESS - depth>>),
                  cut("top_pocket") >>)
       \o When(p.POCKET_ENABLE_BOTTOM,
               << makeBox("bottom_pocket", pocket_len, pocket_w, depth, <<x0, y0, 0>>),
                  cut("bottom_pocket") >>)
       \o V1_HoleChecks(p)
       \o << makeCylinder("hole1", h.hole_r, p.OUTSIDE_THICKNESS + 2000, <<xh, h.y1, zh>>) >>
       \o When(p.SECOND_HOLE,
               << makeCylinder("hole2", h.hole_r, p.OUTSIDE_THICKNESS + 2000,
                               <<xh, h.y2, zh>>) >>)
       \o << cut("hole1") >>
       \o When(p.SECOND_HOLE, << cut("hole2") >>)
       \o V1_safe_fillet(p.FILLET_RADIUS, k)
       \o << Do("addObject", "WindowCameraMount"),
             Do("recompute", "doc"),
             Log("Clip-style camera mount created!", <<p.WIDTH>>),
             Log("Hole 1 at Y, Hole 2 at Y", <<Fixed2(h.y1), Fixed2(h.y2)>>) >>

(***************************************************************************)
(* Window camera mount, second macro                                       *)
(* (mounts/FreeCAD_Tapo_C217_Window_Clip_Mount_Macro_v2.py).               *)
(***************************************************************************)
V2_INSIDE_HEIGHT == 39200
V2_INSIDE_THICKNESS == 4000
V2_INSIDE_FORWARD_SHIFT == 3800
V2_INSIDE_TOP_SEGMENT_HEIGHT == 8000
V2_INSIDE_CONNECT_HEIGHT == 4000
V2_BACK_TRIM_EXTRA == 0
V2_LIP_LENGTH == 16350
V2_LIP_THICKNESS == 4000
V2_HORIZONTAL_LENGTH == 86000
V2_HORIZONTAL_THICKNESS == 5000
V2_OUTSIDE_LENGTH == 70000
V2_OUTSIDE_THICKNESS == 5000
V2_WIDTH == 54000
V2_HOLE_DIAMETER == 6350
V2_HOLE_OFFSET_FROM_BOTTOM == 20000
V2_HOLE_SPACING_Y == 35350
V2_HOLE_2_OFFSET == 3500
V2_HOLE_PAIR_SHIFT == -1750
V2_MIN_EDGE_MARGIN_Y == 2500
V2_FILLET_RADIUS == 0
V2_POCKET_X_START == 2000
V2_POCKET_LENGTH == 24000
V2_POCKET_Y_MARGIN == 4000
V2_POCKET_DEPTH == 1800
V2_MIN_FLOOR_THICKNESS == 1200
V2_UNDERCUT_X_START == 6000
V2_UNDERCUT_LENGTH == 60000
V2_UNDERCUT_Y_MARGIN == 3000
V2_UNDERCUT_DEPTH == 1200
V2_UNDERCUT_MIN_FLOOR == 2000
V2_GUY_HOLE_DIAMETER == 4000
V2_GUY_EDGE_MARGIN_Y == 4000
\* GUY_TOP_LIP_X_FRAC and GUY_BOTTOM_Z_FRAC, in hundredths
V2_GUY_TOP_LIP_X_FRAC == 55
V2_GUY_BOTTOM_Z_FRAC == 70
V2_GUY_BOTTOM_X_BACKOFF == 10000

V2_Defaults ==
    [INSIDE_HEIGHT |-> V2_INSIDE_HEIGHT, INSIDE_THICKNESS |-> V2_INSIDE_THICKNESS,
     INSIDE_FORWARD_SHIFT |-> V2_INSIDE_FORWARD_SHIFT,
     INSIDE_TOP_SEGMENT_HEIGHT |-> V2_INSIDE_TOP_SEGMENT_HEIGHT,
     INSIDE_CONNECT_HEIGHT |-> V2_INSIDE_CONNECT_HEIGHT,
     BACK_TRIM_ENABLE |-> TRUE, BACK_TRIM_TO_X |-> V2_INSIDE_FORWARD_SHIFT,
     BACK_TRIM_EXTRA |-> V2_BACK_TRIM_EXTRA, BACK_TRIM_KEEP_BELOW_CONNECT |-> TRUE,
     LIP_LENGTH |-> V2_LIP_LENGTH, LIP_THICKNESS |-> V2_LIP_THICKNESS,
     HORIZONTAL_LENGTH |-> V2_HORIZONTAL_LENGTH,
     HORIZONTAL_THICKNESS |-> V2_HORIZONTAL_THICKNESS,
     OUTSIDE_LENGTH |-> V2_OUTSIDE_LENGTH, OUTSIDE_THICKNESS |-> V2_OUTSIDE_THICKNESS,
     WIDTH |-> V2_WIDTH, HOLE_DIAMETER |-> V2_HOLE_DIAMETER,
     HOLE_OFFSET_FROM_BOTTOM |-> V2_HOLE_OFFSET_FROM_BOTTOM, SECOND_HOLE |-> TRUE,
     HOLE_SPACING_Y |-> V2_HOLE_SPACING_Y, HOLE_2_OFFSET |-> V2_HOLE_2_OFFSET,
     HOLE_PAIR_SHIFT |-> V2_HOLE_PAIR_SHIFT, MIN_EDGE_MARGIN_Y |-> V2_MIN_EDGE_MARGIN_Y,
     CENTER_HOLES_Z |-> TRUE, FILLET_RADIUS |-> V2_FILLET_RADIUS,
     REFINE_AFTER_BOOLEANS |-> TRUE,
     POCKET_ENABLE_TOP |-> TRUE, POCKET_ENABLE_BOTTOM |-> FALSE,
     POCKET_X_START |-> V2_POCKET_X_START, POCKET_LENGTH |-> V2_POCKET_LENGTH,
     POCKET_Y_MARGIN |-> V2_POCKET_Y_MARGIN, POCKET_DEPTH |-> V2_POCKET_DEPTH,
     MIN_FLOOR_THICKNESS |-> V2_MIN_FLOOR_THICKNESS,
     UNDERCUT_ENABLE |-> TRUE, UNDERCUT_X_START |-> V2_UNDERCUT_X_START,
     UNDERCUT_LENGTH |-> V2_UNDERCUT_LENGTH, UNDERCUT_Y_MARGIN |-> V2_UNDERCUT_Y_MARGIN,
     UNDERCUT_DEPTH |-> V2_UNDERCUT_DEPTH, UNDERCUT_MIN_FLOOR |-> V2_UNDERCUT_MIN_FLOOR,
     GUY_ENABLE |-> TRUE, GUY_HOLE_DIAMETER |-> V2_GUY_HOLE_DIAMETER,
     GUY_EDGE_MARGIN_Y |-> V2_GUY_EDGE_MARGIN_Y, GUY_TOP_IN_LIP |-> TRUE,
     GUY_TOP_LIP_X_FRAC |-> V2_GUY_TOP_LIP_X_FRAC, GUY_BOTTOM_MODE |-> "outside_arm",
     GUY_BOTTOM_Z_FRAC |-> V2_GUY_BOTTOM_Z_FRAC,
     GUY_BOTTOM_X_BACKOFF |-> V2_GUY_BOTTOM_X_BACKOFF]

\* among them: a guy-hole margin too large for the width (30 mm), a horizontal arm
\* too short (8 mm), a top pocket starting 16 mm before the arm's end with an
\* underside slot longer than the arm (70 mm, 90 mm)
V2_Params ==
    HoleVariants(V2_Defaults)
    \cup { [V2_Defaults EXCEPT !.GUY_BOTTOM_MODE = m, !.GUY_TOP_IN_LIP = t] :
             m \in {"outside_arm", "horizontal", "diagonal"}, t \in BOOLEAN }
    \cup { [V2_Defaults EXCEPT !.GUY_ENABLE = FALSE],
           [V2_Defaults EXCEPT !.GUY_EDGE_MARGIN_Y = 30000],
           [V2_Defaults EXCEPT !.GUY_EDGE_MARGIN_Y = 30000, !.GUY_TOP_IN_LIP = FALSE],
           [V2_Defaults EXCEPT !.HORIZONTAL_LENGTH = 8000],
           [V2_Defaults EXCEPT !.FILLET_RADIUS = V1_FILLET_RADIUS],
           [V2_Defaults EXCEPT !.UNDERCUT_ENABLE = FALSE],
           [V2_Defaults EXCEPT !.POCKET_ENABLE_BOTTOM = TRUE],
           [V2_Defaults EXCEPT !.GUY_TOP_LIP_X_FRAC = 90],
           [V2_Defaults EXCEPT !.POCKET_X_START = 70000, !.UNDERCUT_LENGTH = 90000],
           [V2_Defaults EXCEPT !.REFINE_AFTER_BOOLEANS = FALSE] }

\* refine_if_enabled(shape)
refine_if_enabled(p, k, id) ==
    When(p.REFINE_AFTER_BOOLEANS,
         << Stmt("removeSplitter", id, <<>>, {}, "removeSplitter" \in k.raises, TRUE) >>)

\* the edges safe_fillet keeps
V2_IsSafeEdge(e) ==
    /\ ~(XLength(e) < 250 /\ YLength(e) < 250 /\ ZLength(e) < 250)
    /\ Max(XLength(e), Max(YLength(e), ZLength(e))) >= 15000

\* safe_fillet(shape, radius)
V2_safe_fillet(radius, k) ==
    LET edges == {e \in k.edges : V2_IsSafeEdge(e)} IN
    When(radius > 0,
         << Stmt("removeSplitter", "bracket", <<>>, {}, "removeSplitter" \in k.raises, TRUE) >>
         \o When(edges # {},
                 << makeFilletCaught("safe", radius, Ids(edges), "makeFillet" \in k.raises) >>))

\* guy_y_positions(): the two Y positions
V2_GuyY(p) ==
    LET r == Half(p.GUY_HOLE_DIAMETER) IN
    [min_y |-> r + p.GUY_EDGE_MARGIN_Y, max_y |-> p.WIDTH - r - p.GUY_EDGE_MARGIN_Y]

\* guy_y_positions(): its validation
guy_y_positions(p) ==
    When(V2_GuyY(p).min_y >= V2_GuyY(p).max_y,
         << Raise("Guy-hole Y margins too large for WIDTH.", <<>>) >>)

\* cut_top_guy_holes_in_lip(bracket)
cut_top_guy_holes_in_lip(p, k) ==
    LET r == Half(p.GUY_HOLE_DIAMETER)
        g == V2_GuyY(p)
        x_lip == p.INSIDE_THICKNESS
                 + (clamp(p.GUY_TOP_LIP_X_FRAC, 10, 90) * p.LIP_LENGTH) \div 100
        z_lip_bottom == p.HORIZONTAL_THICKNESS + p.INSIDE_HEIGHT - p.LIP_THICKNESS
        drill_h == p.LIP_THICKNESS + 2000
    IN guy_y_positions(p)
       \o << makeCylinder("guy_top_L", r, drill_h, <<x_lip, g.min_y, z_lip_bottom - 1000>>),
             makeCylinder("guy_top_R", r, drill_h, <<x_lip, g.max_y, z_lip_bottom - 1000>>),
             cut("guy_top_L"),
             cut("guy_top_R") >>
       \o refine_if_enabled(p, k, "guy_top")

\* cut_bottom_guy_holes(bracket)
cut_bottom_guy_holes(p, k) ==
    LET r == Half(p.GUY_HOLE_DIAMETER)
        g == V2_GuyY(p)
        z0 == -p.OUTSIDE_LENGTH + p.HORIZONTAL_THICKNESS
        z_bottom_hole == z0 + (clamp(p.GUY_BOTTOM_Z_FRAC, 10, 95) * p.OUTSIDE_LENGTH) \div 100
        xh_arm == p.HORIZONTAL_LENGTH - p.OUTSIDE_THICKNESS - 500
        xh_hor == p.HORIZONTAL_LENGTH - p.OUTSIDE_THICKNESS
                  - clamp(p.GUY_BOTTOM_X_BACKOFF, 6000, 40000)
    IN guy_y_positions(p)
       \o (CASE p.GUY_BOTTOM_MODE = "outside_arm" ->
                 << makeCylinder("guy_bottom_L", r, p.OUTSIDE_THICKNESS + 2000,
                                 <<xh_arm, g.min_y, z_bottom_hole>>),
                    makeCylinder("guy_bottom_R", r, p.OUTSIDE_THICKNESS + 2000,
                                 <<xh_arm, g.max_y, z_bottom_hole>>),
                    cut("guy_bottom_L"),
                    cut("guy_bottom_R") >>
                 \o refine_if_enabled(p, k, "guy_bottom")
             [] p.GUY_BOTTOM_MODE = "horizontal" ->
                 << makeCylinder("guy_bottom_L", r, p.HORIZONTAL_THICKNESS + 2000,
                                 <<xh_hor, g.min_y, -1000>>),
                    makeCylinder("guy_bottom_R", r, p.HORIZONTAL_THICKNESS + 2000,
                                 <<xh_hor, g.max_y, -1000>>),
                    cut("guy_bottom_L"),
                    cut("guy_bottom_R") >>
                 \o refine_if_enabled(p, k, "guy_bottom")
             [] OTHER ->
                 << Raise("GUY_BOTTOM_MODE must be outside_arm or horizontal.", <<>>) >>)

\* hole placement: the centres and the bounds they are checked against
V2_Holes(p) ==
    LET y_center == Half(p.WIDTH)
        hole_r == Half(p.HOLE_DIAMETER)
    IN [y1 |-> y_center + p.HOLE_PAIR_SHIFT - Half(p.HOLE_SPACING_Y),
        y2 |-> y_center + p.HOLE_PAIR_SHIFT + Half(p.HOLE_SPACING_Y) + p.HOLE_2_OFFSET,
        hole_r |-> hole_r,
        min_y |-> hole_r + p.MIN_EDGE_MARGIN_Y,
        max_y |-> p.WIDTH - hole_r - p.MIN_EDGE_MARGIN_Y]

\* the two validations of the hole positions
V2_HoleChecks(p) ==
    LET h == V2_Holes(p) IN
    When(h.y1 < h.min_y,
         << Raise("Hole 1 too close to edge", <<Fixed2(h.y1), Fixed2(h.min_y)>>) >>)
    \o When(p.SECOND_HOLE /\ h.y2 > h.max_y,
            << Raise("Hole 2 too close to edge", <<Fixed2(h.y2), Fixed2(h.max_y)>>) >>)

\* create_camera_mount(): the statements of one run
V2_Program(sess, p, k) ==
    LET top_h == clamp(p.INSIDE_TOP_SEGMENT_HEIGHT, 1000, p.INSIDE_HEIGHT)
        bot_h == Max(100, p.INSIDE_HEIGHT - top_h)
        conn_h == clamp(p.INSIDE_CONNECT_HEIGHT, 500, top_h)
        trim_to_x == p.BACK_TRIM_TO_X - p.BACK_TRIM_EXTRA
        z_top_trim == IF p.BACK_TRIM_KEEP_BELOW_CONNECT
                      THEN p.HORIZONTAL_THICKNESS + bot_h - conn_h
                      ELSE p.HORIZONTAL_THICKNESS + bot_h
        horizontal_actual_length == p.HORIZONTAL_LENGTH - p.INSIDE_FORWARD_SHIFT
        x0 == clamp(p.POCKET_X_START, 0, Max(0, p.HORIZONTAL_LENGTH - 1000))
        x1 == clamp(x0 + p.POCKET_LENGTH, x0 + 1000, p.HORIZONTAL_LENGTH)
        pocket_len == x1 - x0
        y0 == clamp(p.POCKET_Y_MARGIN, 0, Half(p.WIDTH))
        pocket_w == Max(1000, p.WIDTH - 2 * y0)
        max_depth_allowed == Max(100, p.HORIZONTAL_THICKNESS - p.MIN_FLOOR_THICKNESS)
        depth == clamp(p.POCKET_DEPTH, 100, max_depth_allowed)
        ux0 == clamp(p.UNDERCUT_X_START, 0, Max(0, p.HORIZONTAL_LENGTH - 2000))
        ux1 == clamp(ux0 + p.UNDERCUT_LENGTH, ux0 + 2000, p.HORIZONTAL_LENGTH)
        ulen == ux1 - ux0
        uy0 == clamp(p.UNDERCUT_Y_MARGIN, 0, Half(p.WIDTH))
        uw == Max(1000, p.WIDTH - 2 * uy0)
        umax_depth == Max(100, p.HORIZONTAL_THICKNESS - p.UNDERCUT_MIN_FLOOR)
        udepth == clamp(p.UNDERCUT_DEPTH, 100, umax_depth)
        xh == p.HORIZONTAL_LENGTH - p.OUTSIDE_THICKNESS - 1000
        hole_offset == IF p.CENTER_HOLES_Z THEN Half(p.OUTSIDE_LENGTH)
                       ELSE p.HOLE_OFFSET_FROM_BOTTOM
        zh == -p.OUTSIDE_LENGTH + p.HORIZONTAL_THICKNESS + hole_offset
        h == V2_Holes(p)
    IN EnsureDoc(sess, "CameraMount")
       \o << makeBox("inside_bottom", p.INSIDE_THICKNESS, p.WIDTH, bot_h,
                     <<p.INSIDE_FORWARD_SHIFT, 0, p.HORIZONTAL_THICKNESS>>),
             makeBox("inside_top", p.INSIDE_THICKNESS, p.WIDTH, top_h,
                     <<0, 0, p.HORIZONTAL_THICKNESS + bot_h>>),
             makeBox("connector", p.INSIDE_FORWARD_SHIFT + p.INSIDE_THICKNESS, p.WIDTH,
                     conn_h, <<0, 0, p.HORIZONTAL_THICKNESS + bot_h - conn_h>>),
             fuse("inside_top"),
             fuse("connector") >>
       \o refine_if_enabled(p, k, "inside_arm")
       \o When(p.BACK_TRIM_ENABLE,
               << makeBox("trim_box", 400000, p.WIDTH + 40000, z_top_trim + 80000,
                          <<-400000 + trim_to_x, -20000, -80000>>),
                  cut("trim_box") >>
               \o refine_if_enabled(p, k, "inside_arm"))
       \o << makeBox("clip_lip", p.LIP_LENGTH, p.WIDTH, p.LIP_THICKNESS,
                     <<p.INSIDE_THICKNESS, 0,
                       p.HORIZONTAL_THICKNESS + p.INSIDE_HEIGHT - p.LIP_THICKNESS>>) >>
       \o When(horizontal_actual_length <= 5000,
               << Raise("HORIZONTAL_LENGTH too small vs INSIDE_FORWARD_SHIFT.", <<>>) >>)
       \o << makeBox("horizontal", horizontal_actual_length, p.WIDTH,
                     p.HORIZONTAL_THICKNESS, <<p.INSIDE_FORWARD_SHIFT, 0, 0>>),
             makeBox("outside_arm", p.OUTSIDE_THICKNESS, p.WIDTH, p.OUTSIDE_LENGTH,
                     <<p.HORIZONTAL_LENGTH - p.OUTSIDE_THICKNESS, 0,
                       -p.OUTSIDE_LENGTH + p.HORIZONTAL_THICKNESS>>),
             fuse("horizontal"),
             fuse("outside_arm"),
             fuse("clip_lip") >>
       \o refine_if_enabled(p, k, "bracket")
       \o When(p.POCKET_ENABLE_TOP,
               << makeBox("top_pocket", pocket_len, pocket_w, depth,
                          <<x0, y0, p.HORIZONTAL_THICKNESS - depth>>),
                  cut("top_pocket") >>
               \o refine_if_enabled(p, k, "bracket"))
       \o When(p.POCKET_ENABLE_BOTTOM,
               << makeBox("bottom_pocket", pocket_len, pocket_w, depth, <<x0, y0, 0>>),
                  cut("bottom_pocket") >>
               \o refine_if_enabled(p, k, "bracket"))
       \o When(p.UNDERCUT_ENABLE,
               << makeBox("undercut", ulen, uw, udepth, <<ux0, uy0, 0>>),
                  cut("undercut") >>
               \o refine_if_enabled(p, k, "bracket"))
       \o V2_HoleChecks(p)
       \o << makeCylinder("hole1", h.hole_r, p.OUTSIDE_THICKNESS + 2000, <<xh, h.y1, zh>>) >>
       \o When(p.SECOND_HOLE,
               << makeCylinder("hole2", h.hole_r, p.OUTSIDE_THICKNESS + 2000,
                               <<xh, h.y2, zh>>) >>)
       \o << cut("hole1") >>
       \o When(p.SECOND_HOLE, << cut("hole2") >>)
       \o refine_if_enabled(p, k, "bracket")
       \o When(p.GUY_ENABLE /\ p.GUY_TOP_IN_LIP, cut_top_guy_holes_in_lip(p, k))
       \o When(p.GUY_ENABLE, cut_bottom_guy_holes(p, k))
       \o V2_safe_fillet(p.FILLET_RADIUS, k)
       \o << Do("addObject", "WindowCameraMount"),
             Do("recompute", "doc"),
             Log("WindowCameraMount created", <<>>),
             Log("Undercut", <<p.UNDERCUT_DEPTH, p.UNDERCUT_MIN_FLOOR>>),
             Log("Top holes", <<p.GUY_HOLE_DIAMETER, p.GUY_TOP_LIP_X_FRAC>>),
             Log("Bottom holes", <<p.GUY_HOLE_DIAMETER>>) >>

(***************************************************************************)
(* TPU damping strips, first macro (mounts/TPU_Damping_Strips_freecad_macro.py). *)
(***************************************************************************)
T1_INSIDE_FORWARD_SHIFT == 3800
T1_HORIZONTAL_LENGTH == 102000
T1_HORIZONTAL_THICKNESS == 4000
T1_WIDTH == 54000
T1_POCKET_X_START == 2000
T1_POCKET_LENGTH == 24000
T1_POCKET_Y_MARGIN == 4000
T1_POCKET_DEPTH == 1800
T1_TPU_POCKET_THICKNESS == 1600
T1_TPU_STRIP_LENGTH == 90000
T1_TPU_STRIP_WIDTH == 20000
T1_TPU_STRIP_THICKNESS == 1000
T1_PREVIEW_GAP == 10000
T1_PREVIEW_PAD == 5000

T1_Defaults ==
    [INSIDE_FORWARD_SHIFT |-> T1_INSIDE_FORWARD_SHIFT,
     HORIZONTAL_LENGTH |-> T1_HORIZONTAL_LENGTH,
     HORIZONTAL_THICKNESS |-> T1_HORIZONTAL_THICKNESS, WIDTH |-> T1_WIDTH,
     POCKET_X_START |-> T1_POCKET_X_START, POCKET_LENGTH |-> T1_POCKET_LENGTH,
     POCKET_Y_MARGIN |-> T1_POCKET_Y_MARGIN, POCKET_DEPTH |-> T1_POCKET_DEPTH,
     TPU_POCKET_THICKNESS |-> T1_TPU_POCKET_THICKNESS,
     TPU_STRIP_LENGTH |-> T1_TPU_STRIP_LENGTH, TPU_STRIP_WIDTH |-> T1_TPU_STRIP_WIDTH,
     TPU_STRIP_THICKNESS |-> T1_TPU_STRIP_THICKNESS,
     CENTER_STRIP_IN_X |-> TRUE, CENTER_STRIP_IN_Y |-> TRUE,
     PREVIEW_MODE_SIDE_BY_SIDE |-> TRUE,
     PREVIEW_GAP |-> T1_PREVIEW_GAP, PREVIEW_PAD |-> T1_PREVIEW_PAD]

\* among them: a horizontal length (2 mm) not beyond the forward shift
T1_Params ==
    { [T1_Defaults EXCEPT !.HORIZONTAL_LENGTH = h, !.PREVIEW_MODE_SIDE_BY_SIDE = v] :
        h \in {T1_HORIZONTAL_LENGTH, 2000}, v \in BOOLEAN }
    \cup { [T1_Defaults EXCEPT !.CENTER_STRIP_IN_X = FALSE, !.CENTER_STRIP_IN_Y = FALSE] }

\* make_tpu_pocket_insert_shape()
T1_make_tpu_pocket_insert_shape(p) ==
    LET pocket_len == clamp(p.POCKET_LENGTH, 1000, p.HORIZONTAL_LENGTH)
        pocket_w == clamp(p.WIDTH - 2 * p.POCKET_Y_MARGIN, 1000, p.WIDTH)
        t == clamp(p.TPU_POCKET_THICKNESS, 200, p.POCKET_DEPTH)
        z_floor == p.HORIZONTAL_THICKNESS - p.POCKET_DEPTH
    IN << makeBox("pad", pocket_len, pocket_w, t,
                  <<p.POCKET_X_START, p.POCKET_Y_MARGIN, z_floor>>) >>

\* make_tpu_long_under_strip_shape()
make_tpu_long_under_strip_shape(p) ==
    LET horizontal_actual_length == p.HORIZONTAL_LENGTH - p.INSIDE_FORWARD_SHIFT
        strip_len == clamp(p.TPU_STRIP_LENGTH, 5000, horizontal_actual_length)
        strip_w == clamp(p.TPU_STRIP_WIDTH, 5000, p.WIDTH)
        strip_t == clamp(p.TPU_STRIP_THICKNESS, 200, 5000)
        x == IF p.CENTER_STRIP_IN_X
             THEN p.INSIDE_FORWARD_SHIFT + Half(horizontal_actual_length - strip_len)
             ELSE p.INSIDE_FORWARD_SHIFT + 2000
        y == IF p.CENTER_STRIP_IN_Y THEN Half(p.WIDTH - strip_w) ELSE 2000
    IN When(horizontal_actual_length <= 0,
            << Raise("HORIZONTAL_LENGTH must be > INSIDE_FORWARD_SHIFT.", <<>>) >>)
       \o << makeBox("strip", strip_len, strip_w, strip_t, <<x, y, -strip_t>>) >>

\* place_side_by_side: both solids moved to the origin, the strip then past the pad
place_side_by_side(pad, strip, gap, pad_extra) ==
    << Stmt("translate", "pad", <<-pad.dims[4], -pad.dims[5], -pad.dims[6]>>, {}, FALSE, FALSE),
       Stmt("translate", "strip", <<-strip.dims[4], -strip.dims[5], -strip.dims[6]>>, {},
            FALSE, FALSE),
       Stmt("translate", "strip", <<pad.dims[1] + gap + pad_extra, 0, 0>>, {}, FALSE, FALSE) >>

\* main(): the statements of one run
T1_Program(sess, p) ==
    LET pad == T1_make_tpu_pocket_insert_shape(p)
        strip == make_tpu_long_under_strip_shape(p)
    IN EnsureDoc(sess, "TPU_Strips")
       \o pad
       \o strip
       \o When(p.PREVIEW_MODE_SIDE_BY_SIDE,
               place_side_by_side(pad[1], strip[Len(strip)], p.PREVIEW_GAP, p.PREVIEW_PAD))
       \o << Do("addObject", "TPU_Pocket_Insert"),
             Do("addObject", "TPU_Long_Strip_Under"),
             Do("recompute", "doc"),
             Log("TPU_Pocket_Insert", <<Fixed2(pad[1].dims[1]), Fixed2(pad[1].dims[2]), Fixed2(pad[1].dims[3])>>),
             Log("TPU_Long_Strip_Under", <<Fixed2(strip[Len(strip)].dims[1]), Fixed2(strip[Len(strip)].dims[2]), Fixed2(strip[Len(strip)].dims[3])>>) >>

(***************************************************************************)
(* TPU damping strips, second macro                                        *)
(* (mounts/TPU_Damping_Strips_FreeCAD_Tapo_C217_Window_Clip_Mount_Macro_v2.py). *)
(***************************************************************************)
T2_INSIDE_FORWARD_SHIFT == 3800
T2_HORIZONTAL_LENGTH == 86000
T2_HORIZONTAL_THICKNESS == 5000
T2_WIDTH == 54000
T2_POCKET_X_START == 2000
T2_POCKET_LENGTH == 24000
T2_POCKET_Y_MARGIN == 4000
T2_POCKET_DEPTH == 1800
T2_UNDERCUT_X_START == 6000
T2_UNDERCUT_LENGTH == 60000
T2_UNDERCUT_Y_MARGIN == 3000
T2_UNDERCUT_DEPTH == 1200
T2_UNDERCUT_MIN_FLOOR == 2000
T2_TPU_POCKET_THICKNESS == 1600
T2_TPU_UNDERCUT_STRIP_THICKNESS == 1000
T2_TPU_STRIP_LENGTH == 60000
T2_TPU_STRIP_WIDTH == 30000
T2_PREVIEW_GAP == 10000
T2_PREVIEW_PAD == 5000

T2_Defaults ==
    [INSIDE_FORWARD_SHIFT |-> T2_INSIDE_FORWARD_SHIFT,
     HORIZONTAL_LENGTH |-> T2_HORIZONTAL_LENGTH,
     HORIZONTAL_THICKNESS |-> T2_HORIZONTAL_THICKNESS, WIDTH |-> T2_WIDTH,
     POCKET_X_START |-> T2_POCKET_X_START, POCKET_LENGTH |-> T2_POCKET_LENGTH,
     POCKET_Y_MARGIN |-> T2_POCKET_Y_MARGIN, POCKET_DEPTH |-> T2_POCKET_DEPTH,
     UNDERCUT_ENABLE |-> TRUE, UNDERCUT_X_START |-> T2_UNDERCUT_X_START,
     UNDERCUT_LENGTH |-> T2_UNDERCUT_LENGTH, UNDERCUT_Y_MARGIN |-> T2_UNDERCUT_Y_MARGIN,
     UNDERCUT_DEPTH |-> T2_UNDERCUT_DEPTH, UNDERCUT_MIN_FLOOR |-> T2_UNDERCUT_MIN_FLOOR,
     TPU_POCKET_THICKNESS |-> T2_TPU_POCKET_THICKNESS,
     TPU_UNDERCUT_STRIP_THICKNESS |-> T2_TPU_UNDERCUT_STRIP_THICKNESS,
     TPU_UNDERCUT_MATCH_SLOT |-> TRUE,
     TPU_STRIP_LENGTH |-> T2_TPU_STRIP_LENGTH, TPU_STRIP_WIDTH |-> T2_TPU_STRIP_WIDTH,
     CENTER_STRIP_IN_X |-> FALSE, CENTER_STRIP_IN_Y |-> FALSE,
     PREVIEW_MODE_SIDE_BY_SIDE |-> TRUE,
     PREVIEW_GAP |-> T2_PREVIEW_GAP, PREVIEW_PAD |-> T2_PREVIEW_PAD]

T2_Params ==
    { [T2_Defaults EXCEPT !.UNDERCUT_ENABLE = u, !.HORIZONTAL_LENGTH = h,
                          !.PREVIEW_MODE_SIDE_BY_SIDE = v] :
        u \in BOOLEAN, h \in {T2_HORIZONTAL_LENGTH, 2000}, v \in BOOLEAN }
    \cup { [T2_Defaults EXCEPT !.TPU_UNDERCUT_MATCH_SLOT = FALSE],
           [T2_Defaults EXCEPT !.POCKET_X_START = 70000, !.UNDERCUT_LENGTH = 90000],
           [T2_Defaults EXCEPT !.CENTER_STRIP_IN_X = TRUE, !.CENTER_STRIP_IN_Y = TRUE] }

\* make_tpu_pocket_insert_shape()
T2_make_tpu_pocket_insert_shape(p) ==
    LET pocket_len == clamp(p.POCKET_LENGTH, 1000, p.HORIZONTAL_LENGTH)
        pocket_w == clamp(p.WIDTH - 2 * p.POCKET_Y_MARGIN, 1000, p.WIDTH)
        t == clamp(p.TPU_POCKET_THICKNESS, 200, p.POCKET_DEPTH)
        z_floor == p.HORIZONTAL_THICKNESS - p.POCKET_DEPTH
    IN << makeBox("pad", pocket_len, pocket_w, t,
                  <<p.POCKET_X_START, p.POCKET_Y_MARGIN, z_floor>>) >>

\* make_tpu_undercut_strip_shape()
make_tpu_undercut_strip_shape(p) ==
    LET horizontal_actual_length == p.HORIZONTAL_LENGTH - p.INSIDE_FORWARD_SHIFT
        strip_len == IF p.TPU_UNDERCUT_MATCH_SLOT
                     THEN clamp(p.UNDERCUT_LENGTH, 5000, horizontal_actual_length)
                     ELSE clamp(p.TPU_STRIP_LENGTH, 5000, horizontal_actual_length)
        strip_w == IF p.TPU_UNDERCUT_MATCH_SLOT
                   THEN clamp(p.WIDTH - 2 * p.UNDERCUT_Y_MARGIN, 5000, p.WIDTH)
                   ELSE clamp(p.TPU_STRIP_WIDTH, 5000, p.WIDTH)
        strip_t == clamp(p.TPU_UNDERCUT_STRIP_THICKNESS, 200, p.UNDERCUT_DEPTH)
        x == IF p.CENTER_STRIP_IN_X
             THEN p.INSIDE_FORWARD_SHIFT + Half(horizontal_actual_length - strip_len)
             ELSE clamp(p.UNDERCUT_X_START, 0, p.HORIZONTAL_LENGTH - strip_len)
        y == IF p.CENTER_STRIP_IN_Y THEN Half(p.WIDTH - strip_w)
             ELSE clamp(p.UNDERCUT_Y_MARGIN, 0, p.WIDTH - strip_w)
    IN When(~p.UNDERCUT_ENABLE,
            << Raise("UNDERCUT_ENABLE is False in this TPU macro.", <<>>) >>)
       \o When(horizontal_actual_length <= 0,
               << Raise("HORIZONTAL_LENGTH must be > INSIDE_FORWARD_SHIFT.", <<>>) >>)
       \o << makeBox("strip", strip_len, strip_w, strip_t, <<x, y, 0>>) >>

\* main() registering the pad as soon as it is built, before the strip is made
T2_ProgramRegistersPadFirst(sess, p) ==
    LET pad == T2_make_tpu_pocket_insert_shape(p)
        strip == make_tpu_undercut_strip_shape(p)
    IN EnsureDoc(sess, "TPU_Strips")
       \o pad
       \o << Do("addObject", "TPU_Pocket_Insert") >>
       \o strip
       \o << Do("addObject", "TPU_Undercut_Strip"),
             Do("recompute", "doc") >>

\* main(): the statements of one run
T2_Program(sess, p) ==
    LET pad == T2_make_tpu_pocket_insert_shape(p)
        strip == make_tpu_undercut_strip_shape(p)
    IN EnsureDoc(sess, "TPU_Strips")
       \o pad
       \o strip
       \o When(p.PREVIEW_MODE_SIDE_BY_SIDE,
               place_side_by_side(pad[1], strip[Len(strip)], p.PREVIEW_GAP, p.PREVIEW_PAD))
       \o << Do("addObject", "TPU_Pocket_Insert"),
             Do("addObject", "TPU_Undercut_Strip"),
             Do("recompute", "doc"),
             Log("TPU_Pocket_Insert", <<Fixed2(pad[1].dims[1]), Fixed2(pad[1].dims[2]), Fixed2(pad[1].dims[3])>>),
             Log("TPU_Undercut_Strip", <<Fixed2(strip[Len(strip)].dims[1]), Fixed2(strip[Len(strip)].dims[2]), Fixed2(strip[Len(strip)].dims[3])>>) >>

(***************************************************************************)
(* Flowerpot antenna (flowerpot_antenna_FreeCAD_macro.py).                 *)
(***************************************************************************)
A_TARGET_FREQ_MHZ == 127
A_COAX_OD == 6100
A_SLEEVE_CHANNEL_ID == 18000
A_MAX_PRINT_HEIGHT == 240000
A_TUBE_OD == 32000
A_WALL_THICKNESS == 2500
A_JOINT_LENGTH == 25000
A_JOINT_CLEARANCE == 250
A_CHAMFER_SIZE == 1500
A_KEY_WIDTH == 4000
A_KEY_DEPTH == 2000
A_BOTTOM_CAP_HEIGHT == 20000
A_TOP_CAP_HEIGHT == 25000
A_DOME_HEIGHT == 12000
A_DRAIN_HOLE_DIA == 3500
A_NUM_DRAIN_HOLES == 4
\* TRIM_FACTOR and VF_RADIATOR, in hundredths
A_TRIM_FACTOR == 102
A_VF_RADIATOR == 95
\* C_MM_PER_SEC / 1e6 mm, counted in micrometres: the wavelength at 1 MHz
A_C_MM_PER_SEC == 299792458

A_Defaults ==
    [TARGET_FREQ_MHZ |-> A_TARGET_FREQ_MHZ, COAX_OD |-> A_COAX_OD,
     SLEEVE_CHANNEL_ID |-> A_SLEEVE_CHANNEL_ID, MAX_PRINT_HEIGHT |-> A_MAX_PRINT_HEIGHT,
     TUBE_OD |-> A_TUBE_OD, WALL_THICKNESS |-> A_WALL_THICKNESS,
     JOINT_LENGTH |-> A_JOINT_LENGTH, JOINT_CLEARANCE |-> A_JOINT_CLEARANCE,
     CHAMFER_SIZE |-> A_CHAMFER_SIZE, KEY_WIDTH |-> A_KEY_WIDTH, KEY_DEPTH |-> A_KEY_DEPTH,
     BOTTOM_CAP_HEIGHT |-> A_BOTTOM_CAP_HEIGHT, TOP_CAP_HEIGHT |-> A_TOP_CAP_HEIGHT,
     DOME_HEIGHT |-> A_DOME_HEIGHT, DRAIN_HOLE_DIA |-> A_DRAIN_HOLE_DIA,
     NUM_DRAIN_HOLES |-> A_NUM_DRAIN_HOLES]

\* print heights tried: as shipped, below the joint length, equal to it, and one that
\* leaves room for two of the three indicator marks
PrintHeights == {A_MAX_PRINT_HEIGHT, 20000, A_JOINT_LENGTH, 106000}

A_Params ==
    { [A_Defaults EXCEPT !.MAX_PRINT_HEIGHT = h, !.TARGET_FREQ_MHZ = f] :
        h \in PrintHeights, f \in {118, A_TARGET_FREQ_MHZ} }
    \cup { [A_Defaults EXCEPT !.WALL_THICKNESS = w, !.TUBE_OD = o] :
             w \in {500, 2000, A_WALL_THICKNESS}, o \in {A_TUBE_OD, 40000} }
    \cup { [A_Defaults EXCEPT !.SLEEVE_CHANNEL_ID = s, !.COAX_OD = c] :
             s \in {A_SLEEVE_CHANNEL_ID, 26000}, c \in {A_COAX_OD, 15000} }
    \cup { [A_Defaults EXCEPT !.TOP_CAP_HEIGHT = 5000] }
    \cup { [A_Defaults EXCEPT !.NUM_DRAIN_HOLES = n] : n \in {3, 6} }
    \cup { [A_Defaults EXCEPT !.DRAIN_HOLE_DIA = 6000] }
    \cup { [A_Defaults EXCEPT !.WALL_THICKNESS = 9000, !.SLEEVE_CHANNEL_ID = 11000] }

\* the wavelength with the frequency read in kHz
WavelengthOfKHz(freq) == A_C_MM_PER_SEC \div (freq * 1000)

\* WAVELENGTH = C_MM_PER_SEC / (TARGET_FREQ_MHZ * 1e6), in micrometres
Wavelength(freq) == A_C_MM_PER_SEC \div freq

\* TUBE_ID, KEY_LENGTH, COAX_HOLE_DIA and the calculated dimensions, each product
\* taken in the order the script takes it
A_Derived(p) ==
    LET WAVELENGTH == Wavelength(p.TARGET_FREQ_MHZ)
        HALF_WAVE_NOMINAL == (Half(WAVELENGTH) * A_VF_RADIATOR) \div 100
        QUARTER_WAVE_NOMINAL == WAVELENGTH \div 4
        HALF_WAVE == (HALF_WAVE_NOMINAL * A_TRIM_FACTOR) \div 100
        QUARTER_WAVE == (QUARTER_WAVE_NOMINAL * A_TRIM_FACTOR) \div 100
        TOTAL_ANTENNA_LENGTH == HALF_WAVE + QUARTER_WAVE
        SECTION_BODY_LENGTH == p.MAX_PRINT_HEIGHT - p.JOINT_LENGTH
        ACTUAL_SECTION_LENGTH == p.MAX_PRINT_HEIGHT - p.JOINT_LENGTH
        TUBE_ID == p.TUBE_OD - (p.WALL_THICKNESS * 2)
    IN [TUBE_ID |-> TUBE_ID,
        KEY_LENGTH |-> p.JOINT_LENGTH - 2000,
        COAX_HOLE_DIA |-> p.COAX_OD + 2000,
        WAVELENGTH |-> WAVELENGTH,
        HALF_WAVE_NOMINAL |-> HALF_WAVE_NOMINAL,
        QUARTER_WAVE_NOMINAL |-> QUARTER_WAVE_NOMINAL,
        HALF_WAVE |-> HALF_WAVE, QUARTER_WAVE |-> QUARTER_WAVE,
        TOTAL_ANTENNA_LENGTH |-> TOTAL_ANTENNA_LENGTH,
        SECTION_BODY_LENGTH |-> SECTION_BODY_LENGTH,
        NUM_SECTIONS |-> IF SECTION_BODY_LENGTH = 0 THEN 0
                         ELSE CeilDiv(TOTAL_ANTENNA_LENGTH, SECTION_BODY_LENGTH),
        ACTUAL_SECTION_LENGTH |-> ACTUAL_SECTION_LENGTH,
        SLEEVE_SECTIONS |-> IF ACTUAL_SECTION_LENGTH = 0 THEN 0
                            ELSE CeilDiv(QUARTER_WAVE, ACTUAL_SECTION_LENGTH),
        OUTER_R |-> Half(p.TUBE_OD), INNER_R |-> Half(TUBE_ID),
        SLEEVE_CHANNEL_R |-> Half(p.SLEEVE_CHANNEL_ID)]

\* the module-level divisions: Python raises ZeroDivisionError on a zero divisor
A_ModuleLevel(p) ==
    LET d == A_Derived(p) IN
    << Stmt("divide", "NUM_SECTIONS", <<d.TOTAL_ANTENNA_LENGTH, d.SECTION_BODY_LENGTH>>, {},
            d.SECTION_BODY_LENGTH = 0, FALSE),
       Stmt("divide", "SLEEVE_SECTIONS", <<d.QUARTER_WAVE, d.ACTUAL_SECTION_LENGTH>>, {},
            d.ACTUAL_SECTION_LENGTH = 0, FALSE) >>

\* validate_parameters()
validate_parameters(p) ==
    LET d == A_Derived(p)
        male_outer_r == d.INNER_R - p.JOINT_CLEARANCE
        male_inner_r == d.INNER_R - p.WALL_THICKNESS
        liner_wall == d.INNER_R - d.SLEEVE_CHANNEL_R
    IN When(male_inner_r >= male_outer_r - 500,
            << Raise("Male plug wall too thin.", <<>>) >>)
       \o When(p.SLEEVE_CHANNEL_ID >= d.TUBE_ID - 2000,
               << Raise("Sleeve channel ID too large for tube ID.", <<>>) >>)
       \o When(p.COAX_OD >= p.SLEEVE_CHANNEL_ID - 4000,
               << Raise("Coax OD too large for sleeve channel.", <<>>) >>)
       \o << Log("Liner wall thickness", <<liner_wall>>),
             Log("Validation passed.", <<>>) >>

\* create_document()
create_document(sess) ==
    When(sess.active = <<"FlowerpotAntenna_v4", 0>>,
         << Do("closeDocument", "FlowerpotAntenna_v4") >>)
    \o << Do("newDocument", "FlowerpotAntenna_v4") >>


\* make_cylinder(radius, height, position)
make_cylinder(id, radius, height, position) ==
    << makeCylinder(id, radius, height, position) >>

\* make_tube(outer_r, inner_r, height, position): outer cylinder minus inner cylinder
make_tube(id, outer_r, inner_r, height, position) ==
    make_cylinder(id, outer_r, height, position)
    \o make_cylinder(id, inner_r, height + 2000,
                     <<position[1], position[2], position[3] - 1000>>)
    \o << cut(id) >>

\* make_dome(radius, height, position)
make_dome(id, radius, height, position) ==
    << Stmt("makeSphere", id, <<radius>>, {}, radius <= 0, FALSE),
       Stmt("scale", id, <<height, radius>>, {}, radius = 0, FALSE),
       makeBox(id, radius * 3, radius * 3, radius * 2,
               <<-(radius * 15) \div 10, -(radius * 15) \div 10, -(radius * 2)>>),
       cut(id),
       translate(id, position) >>

\* add_alignment_key(shape, radius, length, z_pos, is_male)
add_alignment_key(p, radius, length, z_pos, is_male) ==
    IF is_male
    THEN << makeBox("key", p.KEY_WIDTH, p.KEY_DEPTH, length,
                    <<-Half(p.KEY_WIDTH), radius - p.KEY_DEPTH, z_pos>>),
            fuse("key") >>
    ELSE LET clearance == p.JOINT_CLEARANCE * 2 IN
         << makeBox("keyway", p.KEY_WIDTH + clearance, p.KEY_DEPTH + clearance,
                    length + 1000,
                    <<-Half(p.KEY_WIDTH + clearance),
                      radius - p.KEY_DEPTH - p.JOINT_CLEARANCE, z_pos - 500>>),
            cut("keyway") >>

\* add_part_to_doc(doc, shape, name, color)
add_part_to_doc(name) == << Do("addObject", name) >>

\* an indicator mark cut wherever it falls
IndicatorMarkUnguarded(p, d, groove_z, i) ==
    LET mark_z == groove_z - 5000 - (i * 4000) IN
    make_tube("mark_cutter", d.OUTER_R + 100, d.OUTER_R - 500, 1500, <<0, 0, mark_z>>)
    \o << cut("mark") >>

\* the indicator marks of a feedpoint section
IndicatorMark(p, d, groove_z, i) ==
    LET mark_z == groove_z - 5000 - (i * 4000) IN
    When(mark_z > p.JOINT_LENGTH + 5000,
         make_tube("mark_cutter", d.OUTER_R + 100, d.OUTER_R - 500, 1500, <<0, 0, mark_z>>)
         \o << cut("mark") >>)

\* create_tube_section(section_num, is_sleeve_section, is_feedpoint_section)
create_tube_section(p, is_sleeve_section, is_feedpoint_section) ==
    LET d == A_Derived(p)
        length == d.ACTUAL_SECTION_LENGTH
        female_r == d.INNER_R + p.JOINT_CLEARANCE
        male_outer_r == d.INNER_R - p.JOINT_CLEARANCE
        male_inner_r == d.INNER_R - p.WALL_THICKNESS
        liner_start == p.JOINT_LENGTH + 2000
        liner_end == length - p.JOINT_LENGTH - 2000
        liner_length == liner_end - liner_start
        groove_z == length - p.JOINT_LENGTH - 15000
    IN make_tube("main_tube", d.OUTER_R, d.INNER_R, length, <<0, 0, 0>>)
       \o make_cylinder("female_socket", female_r, p.JOINT_LENGTH + 100,
                        <<0, 0, length - p.JOINT_LENGTH>>)
       \o << cut("female_socket"),
             makeCone("chamfer_cone", female_r + p.CHAMFER_SIZE, female_r, p.CHAMFER_SIZE),
             translate("chamfer_cone", <<0, 0, length - p.CHAMFER_SIZE>>),
             cut("chamfer_cone") >>
       \o add_alignment_key(p, female_r, d.KEY_LENGTH, length - p.JOINT_LENGTH + 1000, FALSE)
       \o make_tube("male_plug", male_outer_r, male_inner_r, p.JOINT_LENGTH,
                    <<0, 0, -p.JOINT_LENGTH>>)
       \o << makeCone("tip_chamfer", male_outer_r - p.CHAMFER_SIZE, male_outer_r,
                      p.CHAMFER_SIZE),
             translate("tip_chamfer", <<0, 0, -p.JOINT_LENGTH>>),
             cut("tip_chamfer"),
             fuse("male_plug") >>
       \o add_alignment_key(p, male_outer_r - 300, d.KEY_LENGTH, -p.JOINT_LENGTH + 1000, TRUE)
       \o When(is_sleeve_section /\ liner_length > 10000,
               make_tube("liner", d.INNER_R - 50, d.SLEEVE_CHANNEL_R, liner_length,
                         <<0, 0, liner_start>>)
               \o << fuse("liner") >>
               \o make_tube("lip", d.SLEEVE_CHANNEL_R, d.SLEEVE_CHANNEL_R - 1000, 1000,
                            <<0, 0, liner_start>>)
               \o << fuse("lip") >>)
       \o When(is_feedpoint_section,
               make_tube("groove_cutter", d.OUTER_R + 100, d.OUTER_R - 2000, 8000,
                         <<0, 0, groove_z>>)
               \o << cut("groove") >>
               \o IndicatorMark(p, d, groove_z, 0)
               \o IndicatorMark(p, d, groove_z, 1)
               \o IndicatorMark(p, d, groove_z, 2))

\* math.cos of an angle in degrees, in ten-thousandths, for multiples of 15 degrees
Cos10k(deg) ==
    LET a == deg % 360
        b == IF a > 180 THEN 360 - a ELSE a
        c == IF b > 90 THEN 180 - b ELSE b
        v == CASE c = 0 -> 10000 [] c = 15 -> 9659 [] c = 30 -> 8660 [] c = 45 -> 7071
               [] c = 60 -> 5000 [] c = 75 -> 2588 [] OTHER -> 0
    IN IF b > 90 THEN -v ELSE v

\* math.sin of an angle in degrees, in ten-thousandths
Sin10k(deg) == Cos10k(deg + 270)

\* radius * cosine, to the micrometre, rounded toward zero
Scaled(radius, c10k) == IF c10k < 0 THEN -((radius * (-c10k)) \div 10000)
                        ELSE (radius * c10k) \div 10000

\* the drain-hole angle without the 45 degree phase
DrainAngleNoPhase(p, i) == i * (360 \div p.NUM_DRAIN_HOLES)

\* angle = i * (360 / NUM_DRAIN_HOLES) + 45
DrainAngle(p, i) == i * (360 \div p.NUM_DRAIN_HOLES) + 45

\* the drain holes i .. NUM_DRAIN_HOLES - 1 of the bottom cap, on the circle of radius
\* OUTER_R - WALL_THICKNESS
RECURSIVE DrainHoles(_, _)
DrainHoles(p, i) ==
    IF i >= p.NUM_DRAIN_HOLES THEN <<>>
    ELSE LET d == A_Derived(p)
             x == Scaled(d.OUTER_R - p.WALL_THICKNESS, Cos10k(DrainAngle(p, i)))
             y == Scaled(d.OUTER_R - p.WALL_THICKNESS, Sin10k(DrainAngle(p, i)))
         IN make_cylinder("drain", Half(p.DRAIN_HOLE_DIA), p.WALL_THICKNESS + 2000,
                          <<x, y, -1000>>)
            \o << cut("drain") >>
            \o DrainHoles(p, i + 1)

\* create_bottom_cap()
create_bottom_cap(p) ==
    LET d == A_Derived(p)
        height == p.BOTTOM_CAP_HEIGHT
        male_outer_r == d.INNER_R - p.JOINT_CLEARANCE
        male_inner_r == d.INNER_R - p.WALL_THICKNESS
        cavity_r == male_inner_r
        boss_r == Half(d.COAX_HOLE_DIA) + 3000
        boss_length == 5000
        anchor_width == 10000
        anchor_span == (cavity_r * 12) \div 10
        anchor_thickness == 3000
        anchor_z == height - 6000
        slot_width == anchor_width - 4000
    IN make_cylinder("cap", d.OUTER_R, height, <<0, 0, 0>>)
       \o make_tube("male_plug", male_outer_r, male_inner_r, p.JOINT_LENGTH, <<0, 0, height>>)
       \o << makeCone("tip_chamfer", male_outer_r, male_outer_r - p.CHAMFER_SIZE,
                      p.CHAMFER_SIZE),
             translate("tip_chamfer", <<0, 0, height + p.JOINT_LENGTH - p.CHAMFER_SIZE>>),
             cut("tip_chamfer"),
             fuse("male_plug") >>
       \o add_alignment_key(p, male_outer_r - 300, d.KEY_LENGTH, height + 1000, TRUE)
       \o make_cylinder("cavity", cavity_r, height - p.WALL_THICKNESS + p.JOINT_LENGTH,
                        <<0, 0, p.WALL_THICKNESS>>)
       \o << cut("cavity"),
             makeCylinder("boss", boss_r, boss_length,
                          <<-d.OUTER_R - boss_length, 0, Half(height)>>),
             rotate("boss", <<0, 1, 0>>, 90),
             fuse("boss"),
             makeCylinder("coax_hole", Half(d.COAX_HOLE_DIA), d.OUTER_R + boss_length + 5000,
                          <<-d.OUTER_R - boss_length - 2000, 0, Half(height)>>),
             rotate("coax_hole", <<0, 1, 0>>, 90),
             cut("coax_hole") >>
       \o make_cylinder("coax_up", Half(d.COAX_HOLE_DIA), p.JOINT_LENGTH + height,
                        <<0, 0, p.WALL_THICKNESS>>)
       \o << cut("coax_up"),
             makeBox("anchor", anchor_width, anchor_span, anchor_thickness,
                     <<-Half(anchor_width), -Half(anchor_span), anchor_z>>),
             makeBox("slot", slot_width, 4000, anchor_thickness + 2000,
                     <<-Half(slot_width), -2000, anchor_z - 1000>>),
             cut("slot"),
             fuse("anchor") >>
       \o DrainHoles(p, 0)

\* create_top_cap()
create_top_cap(p) ==
    LET d == A_Derived(p)
        height == p.TOP_CAP_HEIGHT
        female_r == d.INNER_R + p.JOINT_CLEARANCE
        cavity_height == height - p.WALL_THICKNESS * 2
    IN make_cylinder("cap", d.OUTER_R, height, <<0, 0, 0>>)
       \o make_dome("dome", d.OUTER_R, p.DOME_HEIGHT, <<0, 0, height>>)
       \o << fuse("dome") >>
       \o make_cylinder("female_socket", female_r, p.JOINT_LENGTH + 1000, <<0, 0, -1000>>)
       \o << cut("female_socket"),
             makeCone("chamfer_cone", female_r + p.CHAMFER_SIZE, female_r, p.CHAMFER_SIZE),
             translate("chamfer_cone", <<0, 0, -p.CHAMFER_SIZE>>),
             cut("chamfer_cone") >>
       \o add_alignment_key(p, female_r, d.KEY_LENGTH, 1000, FALSE)
       \o make_cylinder("cavity", d.INNER_R - p.WALL_THICKNESS, cavity_height,
                        <<0, 0, p.JOINT_LENGTH>>)
       \o << cut("cavity") >>
       \o make_cylinder("wire_hole", 2000, p.WALL_THICKNESS * 2 + p.DOME_HEIGHT + 1000,
                        <<0, 0, height - p.WALL_THICKNESS>>)
       \o << cut("wire_hole") >>

\* one flex slot of the coax guide
FlexSlot(guide_or, guide_height, i) ==
    << makeBox("slot", 3000, (guide_or * 25) \div 10, guide_height + 2000,
               <<-1500, -((guide_or * 125) \div 100), -1000>>),
       rotate("slot", <<0, 0, 1>>, i * 120),
       cut("slot") >>

\* create_coax_guide()
create_coax_guide(p) ==
    LET d == A_Derived(p)
        guide_or == d.SLEEVE_CHANNEL_R - 500
        guide_ir == Half(p.COAX_OD) + 500
        guide_height == 10000
    IN make_tube("ring", guide_or, guide_ir, guide_height, <<0, 0, 0>>)
       \o FlexSlot(guide_or, guide_height, 0)
       \o FlexSlot(guide_or, guide_height, 1)
       \o FlexSlot(guide_or, guide_height, 2)

\* one bolt hole of the feedpoint clamp
BoltHole(clamp_or, z, y_sign) ==
    << makeCylinder("hole", 1600, 20000, <<0, y_sign * (clamp_or - 2000), z>>),
       rotate("hole", <<1, 0, 0>>, 90),
       cut("hole") >>

\* create_feedpoint_clamp()
create_feedpoint_clamp(p) ==
    LET d == A_Derived(p)
        clamp_or == d.SLEEVE_CHANNEL_R + 4000
        clamp_ir == d.SLEEVE_CHANNEL_R + 300
        clamp_height == 12000
    IN make_tube("clamp", clamp_or, clamp_ir, clamp_height, <<0, 0, 0>>)
       \o << makeBox("split", 2000, clamp_or * 2, clamp_height + 2000, <<-1000, 0, -1000>>),
             cut("split") >>
       \o BoltHole(clamp_or, clamp_height \div 4, 1)
       \o BoltHole(clamp_or, clamp_height \div 4, -1)
       \o BoltHole(clamp_or, (clamp_height * 3) \div 4, 1)
       \o BoltHole(clamp_or, (clamp_height * 3) \div 4, -1)

\* create_sleeve_gauge()
create_sleeve_gauge(p) ==
    LET d == A_Derived(p)
        width == 15000
        thickness == 3000
        length == d.QUARTER_WAVE + 30000
    IN << makeBox("gauge", width, length, thickness, <<0, 0, 0>>),
          makeBox("n1", width + 2000, 2000, 1500,
                  <<-1000, d.QUARTER_WAVE_NOMINAL, thickness - 1200>>),
          cut("n1"),
          makeBox("n2", width + 2000, 3000, 2000, <<-1000, d.QUARTER_WAVE, thickness - 1800>>),
          cut("n2"),
          makeBox("n0", width + 2000, 2000, 1000, <<-1000, 5000, thickness - 800>>),
          cut("n0") >>

\* f"Section_{i+1:02d}", then "_Sleeve" and "_FP" as the flags say
SectionName(i, is_sleeve, is_fp) ==
    "Section_" \o (IF i + 1 < 10 THEN "0" ELSE "") \o ToString(i + 1)
    \o (IF is_sleeve THEN "_Sleeve" ELSE "") \o (IF is_fp THEN "_FP" ELSE "")

\* for i in range(NUM_SECTIONS): the sections i .. NUM_SECTIONS - 1, the first at height z
RECURSIVE Sections(_, _, _)
Sections(p, i, z) ==
    LET d == A_Derived(p)
        is_sleeve == i < d.SLEEVE_SECTIONS
        is_fp == i = d.SLEEVE_SECTIONS - 1
        name == SectionName(i, is_sleeve, is_fp)
    IN IF i >= d.NUM_SECTIONS THEN <<>>
       ELSE << Log("Creating", <<i + 1>>) >>
            \o create_tube_section(p, is_sleeve, is_fp)
            \o << translate(name, <<0, 0, z>>) >>
            \o add_part_to_doc(name)
            \o Sections(p, i + 1, z + d.ACTUAL_SECTION_LENGTH + 50000)

RECURSIVE CoaxGuides(_, _)
\* for i in range(4): the guides i .. 3
CoaxGuides(p, i) ==
    IF i >= 4 THEN <<>>
    ELSE create_coax_guide(p)
         \o << translate("CoaxGuide", <<60000, i * 20000, 0>>) >>
         \o add_part_to_doc("CoaxGuide_" \o ToString(i + 1))
         \o CoaxGuides(p, i + 1)

\* main(), after the module level: the statements of one run
A_Program(sess, p) ==
    LET d == A_Derived(p)
        spacing == 50000
        z1 == p.BOTTOM_CAP_HEIGHT + p.JOINT_LENGTH + spacing
        zn == z1 + Max(d.NUM_SECTIONS, 0) * (d.ACTUAL_SECTION_LENGTH + spacing)
    IN A_ModuleLevel(p)
       \o validate_parameters(p)
       \o << Log("Frequency", <<p.TARGET_FREQ_MHZ>>),
             Log("Radiator", <<Fixed1(d.HALF_WAVE)>>),
             Log("Sleeve", <<Fixed1(d.QUARTER_WAVE)>>),
             Log("Total length", <<Fixed1(d.TOTAL_ANTENNA_LENGTH)>>),
             Log("Tube OD/ID", <<p.TUBE_OD, d.TUBE_ID>>),
             Log("Sleeve channel", <<p.SLEEVE_CHANNEL_ID>>),
             Log("Sections", <<d.NUM_SECTIONS, d.SLEEVE_SECTIONS>>) >>
       \o create_document(sess)
       \o << Log("Creating: Bottom Cap", <<>>) >>
       \o create_bottom_cap(p)
       \o << translate("BottomCap", <<0, 0, 0>>) >>
       \o add_part_to_doc("BottomCap")
       \o Sections(p, 0, z1)
       \o << Log("Creating: Top Cap", <<>>) >>
       \o create_top_cap(p)
       \o << translate("TopCap", <<0, 0, zn>>) >>
       \o add_part_to_doc("TopCap")
       \o << Log("Creating: Accessories", <<>>) >>
       \o CoaxGuides(p, 0)
       \o create_feedpoint_clamp(p)
       \o << translate("FeedpointClamp", <<60000, 100000, 0>>) >>
       \o add_part_to_doc("FeedpointClamp")
       \o create_sleeve_gauge(p)
       \o << translate("SleeveGauge", <<100000, 0, 0>>) >>
       \o add_part_to_doc("SleeveGauge")
       \o << Do("recompute", "doc"),
             Log("DONE", <<>>) >>

(***************************************************************************)
(* Runs.                                                                   *)
(***************************************************************************)
\* the host can still give every name this program asks for
Nameable(sess, prog) ==
    { i \in 1..Len(prog) :
        \/ /\ prog[i].op = "addObject"
           /\ Cardinality(Copies(sess, prog[i].id)) > MaxSuffix
        \/ /\ prog[i].op = "newDocument"
           /\ Cardinality({n \in DOMAIN sess.docs : n[1] = prog[i].id}) > MaxSuffix } = {}

\* the kernel's answers for a macro that asks it for no edges and calls no fillet
NoKernel == [edges |-> {}, raises |-> {}]

NoRun == [script |-> "none", p |-> <<>>, k |-> NoKernel, trace |-> <<>>, err |-> "none"]

\* one run of a script: execute its program against the session
RunScript(script, p, k, prog) ==
    LET n == FirstAbort(prog)
        trace == IF n = 0 THEN prog ELSE SubSeq(prog, 1, n)
        after == ApplyTrace(Session, trace)
    IN /\ Nameable(Session, prog)
       /\ docs' = after.docs
       /\ active' = after.active
       /\ run' = [script |-> script, p |-> p, k |-> k, trace |-> trace, err |-> ErrorOf(prog)]
       /\ nruns' = nruns + 1

\* no macro is running, and the model stops after MaxRuns runs
CanRun == run = NoRun /\ nruns < MaxRuns

\* the macro has ended: its variables are gone, the session stays
MacroReturns ==
    /\ run # NoRun
    /\ run' = NoRun
    /\ UNCHANGED <<docs, active, nruns>>

RunSleeveC ==
    /\ CanRun
    /\ \E p \in C_Params : \E k \in C_Kernel(p) :
         LET prog == C_Program(Session, p, k) IN RunScript("sleeveC", p, k, prog)

RunSleeveEnclosed ==
    /\ CanRun
    /\ \E p \in E_Params : \E k \in E_Kernel(p) :
         LET prog == E_Program(Session, p, k) IN RunScript("sleeveEnclosed", p, k, prog)

RunMountV1 ==
    /\ CanRun
    /\ \E p \in V1_Params : \E k \in MountKernel(p) :
         LET prog == V1_Program(Session, p, k) IN RunScript("mountV1", p, k, prog)

RunMountV2 ==
    /\ CanRun
    /\ \E p \in V2_Params : \E k \in MountKernel(p) :
         LET prog == V2_Program(Session, p, k) IN RunScript("mountV2", p, k, prog)

RunTpuV1 ==
    /\ CanRun
    /\ \E p \in T1_Params :
         LET prog == T1_Program(Session, p) IN RunScript("tpuV1", p, NoKernel, prog)

RunTpuV2 ==
    /\ CanRun
    /\ \E p \in T2_Params :
         LET prog == T2_Program(Session, p) IN RunScript("tpuV2", p, NoKernel, prog)

RunAntenna ==
    /\ CanRun
    /\ \E p \in A_Params :
         LET prog == A_Program(Session, p) IN RunScript("antenna", p, NoKernel, prog)

Init ==
    /\ docs = <<>>
    /\ active = NoDoc
    /\ run = NoRun
    /\ nruns = 0

Next ==
    \/ RunSleeveC
    \/ RunSleeveEnclosed
    \/ RunMountV1
    \/ RunMountV2
    \/ RunTpuV1
    \/ RunTpuV2
    \/ RunAntenna
    \/ MacroReturns

Spec == Init /\ [][Next]_vars

(***************************************************************************)
(* The macros in a session whose user also opens documents: a document the *)
(* user opens (File > New) becomes the active one, as any new document.    *)
(***************************************************************************)
\* documents the user opens in one behaviour
MaxUserDocs == 1

UserOpensDocument ==
    /\ run = NoRun
    /\ Cardinality({n \in DOMAIN docs : n[1] = "Unnamed"}) < MaxUserDocs
    /\ LET after == ApplyHost(Session, Do("newDocument", "Unnamed"))
       IN docs' = after.docs /\ active' = after.active
    /\ UNCHANGED <<run, nruns>>

NextWithUser == Next \/ UserOpensDocument

SpecWithUser == Init /\ [][NextWithUser]_vars

(***************************************************************************)
(* make_rounded_box on its own: the inputs are drawn at the start, the     *)
(* call applies the function to them.                                      *)
(***************************************************************************)
\* sides are -1 .. RB_MaxSide fifths of a millimetre, radii -2 .. RB_MaxRadius tenths
RB_MaxSide == 6
RB_MaxRadius == 8

RB_Sides == {200 * n : n \in -1..RB_MaxSide}
RB_Radii == {100 * n : n \in -2..RB_MaxRadius} \cup {E_inner_corner_radius, 90000}

RB_Inputs ==
    { [length_x |-> l, width_y |-> w, height_z |-> E_sleeve_height, corner_r |-> c] :
        l \in RB_Sides, w \in RB_Sides, c \in RB_Radii }

InitRoundedBox ==
    /\ docs = <<>>
    /\ active = NoDoc
    /\ nruns = 0
    /\ run \in { [script |-> "make_rounded_box", p |-> i, k |-> NoKernel,
                  trace |-> <<>>, err |-> "pending"] : i \in RB_Inputs }

CallRoundedBox ==
    /\ run.err = "pending"
    /\ LET prog == make_rounded_box("solid", run.p.length_x, run.p.width_y,
                                    run.p.height_z, run.p.corner_r)
       IN run' = [run EXCEPT !.trace = Executed(prog), !.err = ErrorOf(prog)]
    /\ nruns' = nruns + 1
    /\ UNCHANGED <<docs, active>>

NextRoundedBox == CallRoundedBox

SpecRoundedBox == InitRoundedBox /\ [][NextRoundedBox]_vars

(***************************************************************************)
(* The pocket and slot cutters of the mounts on their own: the pocket and   *)
(* undercut parameters are drawn at the start (negative, zero, shipped and  *)
(* oversized values), one run of the macro cuts with them.                  *)
(***************************************************************************)
PocketStarts == {-5000, 0, 2000, 500000}
PocketLengths == {-3000, 0, 24000, 500000}
PocketMargins == {-2000, 0, 4000, 40000}
PocketDepths == {-1000, 0, 1800, 50000}

V1_PocketInputs ==
    { [V1_Defaults EXCEPT !.POCKET_X_START = xs, !.POCKET_LENGTH = len,
                          !.POCKET_Y_MARGIN = m, !.POCKET_DEPTH = d,
                          !.POCKET_ENABLE_BOTTOM = b] :
        xs \in PocketStarts, len \in PocketLengths, m \in PocketMargins,
        d \in PocketDepths, b \in BOOLEAN }

V2_PocketInputs ==
    { [V2_Defaults EXCEPT !.POCKET_X_START = xs, !.POCKET_LENGTH = len,
                          !.POCKET_Y_MARGIN = m, !.POCKET_DEPTH = d,
                          !.POCKET_ENABLE_BOTTOM = TRUE] :
        xs \in PocketStarts, len \in PocketLengths, m \in PocketMargins,
        d \in PocketDepths }
    \cup
    { [V2_Defaults EXCEPT !.UNDERCUT_X_START = xs, !.UNDERCUT_LENGTH = len,
                          !.UNDERCUT_Y_MARGIN = m, !.UNDERCUT_DEPTH = d] :
        xs \in PocketStarts, len \in PocketLengths, m \in PocketMargins,
        d \in PocketDepths }

\* the kernel of these runs: every edge of the bracket, no call raises
PocketKernel(p) == [edges |-> MountEdges(p.WIDTH), raises |-> {}]

InitPockets ==
    /\ docs = <<>>
    /\ active = NoDoc
    /\ nruns = 0
    /\ run \in { [script |-> "mountV1", p |-> i, k |-> PocketKernel(i),
                  trace |-> <<>>, err |-> "pending"] : i \in V1_PocketInputs }
            \cup
                { [script |-> "mountV2", p |-> i, k |-> PocketKernel(i),
                  trace |-> <<>>, err |-> "pending"] : i \in V2_PocketInputs }

RunMountV1Pockets ==
    /\ run.err = "pending"
    /\ run.script = "mountV1"
    /\ RunScript("mountV1", run.p, run.k, V1_Program(Session, run.p, run.k))

RunMountV2Pockets ==
    /\ run.err = "pending"
    /\ run.script = "mountV2"
    /\ RunScript("mountV2", run.p, run.k, V2_Program(Session, run.p, run.k))

NextPockets ==
    \/ RunMountV1Pockets
    \/ RunMountV2Pockets

SpecPockets == InitPockets /\ [][NextPockets]_vars

(***************************************************************************)
(* Properties of the runs.                                                 *)
(***************************************************************************)
\* the positions of a trace holding a given call
Calls(trace, op, id) == {i \in 1..Len(trace) : trace[i].op = op /\ trace[i].id = id}

\* the positions of a trace holding a call of the geometry kernel
KernelCalls(trace) == {i \in 1..Len(trace) : trace[i].op \in KernelOps}

\* the positions of a trace that register an object
Registrations(trace) == {i \in 1..Len(trace) : trace[i].op = "addObject"}

\* the objects of the active document
Objects(d, a) == IF a = NoDoc THEN {} ELSE d[a]

MountScripts == {"mountV1", "mountV2"}
SleeveScripts == {"sleeveC", "sleeveEnclosed"}
TpuScripts == {"tpuV1", "tpuV2"}

\* the names a script registers its parts under (the antenna's depend on its sections)
PartNames(script) ==
    CASE script = "sleeveC" -> {"BuckleSleeveC"}
      [] script = "sleeveEnclosed" -> {"BuckleSleeveEnclosed"}
      [] script \in MountScripts -> {"WindowCameraMount"}
      [] script = "tpuV1" -> {"TPU_Pocket_Insert", "TPU_Long_Strip_Under"}
      [] script = "tpuV2" -> {"TPU_Pocket_Insert", "TPU_Undercut_Strip"}
      [] OTHER -> {}

\* C1: in both window-mount scripts, for every parameter set, either the build raises
\* ValueError or every camera hole that is cut (hole 1 at y1, and hole 2 at y2 when
\* SECOND_HOLE is true) has its centre at least HOLE_DIAMETER/2 + MIN_EDGE_MARGIN_Y
\* away from both Y edges of the part, y = 0 and y = WIDTH.
C1_HolesKeepMarginFromBothEdges ==
    run.script \in MountScripts =>
        \/ run.err = "ValueError"
        \/ \A i \in 1..Len(run.trace) :
              (/\ run.trace[i].op = "makeCylinder"
               /\ run.trace[i].id \in {"hole1", "hole2"}
               /\ Calls(run.trace, "cut", run.trace[i].id) # {}) =>
                  LET y == run.trace[i].dims[4]
                      margin == Half(run.p.HOLE_DIAMETER) + run.p.MIN_EDGE_MARGIN_Y
                  IN y >= margin /\ run.p.WIDTH - y >= margin

\* C2: in every script, a fatal configuration error (a ValueError of the script) is
\* raised before the first kernel geometry call of the run: a run that ends in such an
\* error has issued no kernel geometry call.
C2_FatalErrorBeforeAnyKernelCall ==
    run.err = "ValueError" => KernelCalls(run.trace) = {}

\* C3: in every script with a fillet step (both sleeves, both mounts), when a
\* makeFillet call raises, no exception ends the run, the shape stays as it was before
\* that call, the statements after it are executed and the part is registered in the
\* document; in the C-shape sleeve a failed vertical-edge fillet is followed by the
\* top-rim fillet, in the enclosed sleeve a failed top-rim fillet by the bottom-rim
\* fillet, whenever that later step has a radius and edges to work on.
C3_FilletDegradesGracefully ==
    run.script \in SleeveScripts \cup MountScripts =>
        \A i \in 1..Len(run.trace) :
            (run.trace[i].op = "makeFillet" /\ run.trace[i].fails) =>
                /\ run.err = "none"
                /\ run.trace[i] \notin SeqToSet(ShapeHistory(run.trace))
                /\ \A name \in PartNames(run.script) :
                      /\ \E j \in (i + 1)..Len(run.trace) :
                            run.trace[j] = Do("addObject", name)
                      /\ Copies(Session, name) # {}
                /\ (/\ run.script = "sleeveC"
                    /\ run.trace[i].id = "vertical"
                    /\ run.p.top_rim_radius > 0
                    /\ \E e \in run.k.edges : C_IsTopEdge(e, run.p)) =>
                       \E j \in (i + 1)..Len(run.trace) :
                           run.trace[j].op = "makeFillet" /\ run.trace[j].id = "top"
                /\ (/\ run.script = "sleeveEnclosed"
                    /\ run.trace[i].id = "top"
                    /\ run.p.bottom_rim_radius > 0
                    /\ \E e \in run.k.edges : E_IsBottomEdge(e)) =>
                       \E j \in (i + 1)..Len(run.trace) :
                           run.trace[j].op = "makeFillet" /\ run.trace[j].id = "bottom"

\* a C-shape sleeve run whose vertical-edge fillet raised, and that went on to attempt
\* the top-rim fillet and to register the sleeve
C3_FailedVerticalFilletThenTopRim ==
    /\ run.script = "sleeveC"
    /\ run.err = "none"
    /\ \E i \in Calls(run.trace, "makeFillet", "vertical") :
          /\ run.trace[i].fails
          /\ \E j \in Calls(run.trace, "makeFillet", "top") : j > i
    /\ <<"BuckleSleeveC", 0>> \in Objects(docs, active)

\* C4: a run of a sleeve script, from any document state the macros reach, leaves no
\* auto-renamed copy of its object in the active document; a stale object of that name
\* is removed before the new one is added; and a run that completes leaves exactly one
\* object of that name, however many runs came before.
C4_SleeveRerunKeepsOneObject ==
    [][(run = NoRun /\ run'.script \in SleeveScripts) =>
          \A name \in PartNames(run'.script) :
             /\ Copies([docs |-> docs', active |-> active'], name) \subseteq {<<name, 0>>}
             /\ run'.err = "none" =>
                   Copies([docs |-> docs', active |-> active'], name) = {<<name, 0>>}
             /\ getObject(Session, name) =>
                   \E i \in Calls(run'.trace, "removeObject", name) :
                       \A j \in Calls(run'.trace, "addObject", name) : i < j]_vars

\* a sleeve script has run at least twice, the last run removed the stale sleeve and
\* registered the new one under the same name
C4_SleeveRebuiltOverStaleObject ==
    /\ run.script = "sleeveC"
    /\ run.err = "none"
    /\ nruns >= 2
    /\ Calls(run.trace, "removeObject", "BuckleSleeveC") # {}
    /\ Copies(Session, "BuckleSleeveC") = {<<"BuckleSleeveC", 0>>}

\* C5: a run of a mount or TPU script that completes leaves exactly one object per part
\* name in the active document (WindowCameraMount; TPU_Pocket_Insert,
\* TPU_Undercut_Strip, TPU_Long_Strip_Under), whatever was registered before, the
\* host giving a fresh unique name when the requested one is taken.
C5_MountAndTpuRerunKeepsOneObject ==
    (run.script \in MountScripts \cup TpuScripts /\ run.err = "none") =>
        \A name \in PartNames(run.script) : Copies(Session, name) = {<<name, 0>>}

\* C6: a run of a mount, TPU or antenna script that ends by raising a configuration
\* error (a ValueError of the script) has called addObject zero times, and the objects
\* of the active document after the run are those before it.
C6_NoObjectOnFatalError ==
    [][(/\ run = NoRun
        /\ run'.script \in MountScripts \cup TpuScripts \cup {"antenna"}
        /\ run'.err = "ValueError") =>
          /\ Registrations(run'.trace) = {}
          /\ Objects(docs', active') = Objects(docs, active)]_vars

\* a TPU run that raised its configuration error after the pad was built, in a
\* document that holds the parts of an earlier run
C6_TpuFailedAfterEarlierSuccess ==
    /\ run.script = "tpuV2"
    /\ run.err = "ValueError"
    /\ Calls(run.trace, "makeBox", "pad") # {}
    /\ <<"TPU_Pocket_Insert", 0>> \in Objects(docs, active)

\* C7: for every parameter set, in both sleeve scripts outer_w - inner_w = 2*wall and
\* outer_d - inner_d = 2*wall exactly, in the derived sizes and in the sizes a
\* completed run reports, and in the antenna script TUBE_OD - TUBE_ID =
\* 2*WALL_THICKNESS exactly (lengths are fixed-point, counted in micrometres).
C7_ClearanceInvariant ==
    /\ run.script = "sleeveC" =>
          LET d == C_Derived(run.p) IN
          /\ d.outer_w - d.inner_w = 2 * run.p.wall
          /\ d.outer_d - d.inner_d = 2 * run.p.wall
          /\ \A i \in Calls(run.trace, "makeBox", "outer") :
                \A j \in Calls(run.trace, "makeBox", "inner") :
                   /\ run.trace[i].dims[1] - run.trace[j].dims[1] = 2 * run.p.wall
                   /\ run.trace[i].dims[2] - run.trace[j].dims[2] = 2 * run.p.wall
    /\ run.script = "sleeveEnclosed" =>
          LET d == E_Derived(run.p) IN
          /\ d.outer_w - d.inner_w = 2 * run.p.wall
          /\ d.outer_d - d.inner_d = 2 * run.p.wall
          /\ \A i \in Calls(run.trace, "print", "Outer dimensions") :
                \A j \in Calls(run.trace, "print", "Inner cavity") :
                   /\ run.trace[i].dims[1] - run.trace[j].dims[1] = 2 * run.p.wall
                   /\ run.trace[i].dims[2] - run.trace[j].dims[2] = 2 * run.p.wall
    /\ run.script = "antenna" =>
          /\ run.p.TUBE_OD - A_Derived(run.p).TUBE_ID = 2 * run.p.WALL_THICKNESS
          /\ \A i \in Calls(run.trace, "print", "Tube OD/ID") :
                run.trace[i].dims[1] - run.trace[i].dims[2] = 2 * run.p.WALL_THICKNESS

\* an enclosed sleeve built with its shipped wall, its sizes reported
C7_EnclosedSleeveReportsSizes ==
    /\ run.script = "sleeveEnclosed"
    /\ run.err = "none"
    /\ run.p.wall = E_wall
    /\ Calls(run.trace, "print", "Outer dimensions") # {}
    /\ Calls(run.trace, "print", "Inner cavity") # {}

\* the line and arc calls of a trace, in the order the profile lists them
ProfileEdges(trace) == SelectSeq(trace, LAMBDA s : s.op \in {"makeLine", "makeCircle"})

\* cosine and sine of a whole number of quarter turns, given in degrees
Cos90(a) == CASE a % 360 = 0 -> 1 [] a % 360 = 180 -> -1 [] OTHER -> 0
Sin90(a) == CASE a % 360 = 90 -> 1 [] a % 360 = 270 -> -1 [] OTHER -> 0

\* where an edge of the profile starts and ends
StartPoint(e) ==
    IF e.op = "makeLine" THEN <<e.dims[1], e.dims[2]>>
    ELSE <<e.dims[2] + e.dims[1] * Cos90(e.dims[4]), e.dims[3] + e.dims[1] * Sin90(e.dims[4])>>

EndPoint(e) ==
    IF e.op = "makeLine" THEN <<e.dims[3], e.dims[4]>>
    ELSE <<e.dims[2] + e.dims[1] * Cos90(e.dims[5]), e.dims[3] + e.dims[1] * Sin90(e.dims[5])>>

\* length of a line of the profile (each runs along an axis)
LineLength(e) == Abs(e.dims[3] - e.dims[1]) + Abs(e.dims[4] - e.dims[2])

\* eight edges, each ending where the next starts, the last where the first starts
ClosedLoop(edges) ==
    /\ Len(edges) = 8
    /\ \A i \in 1..8 : EndPoint(edges[i]) = StartPoint(edges[(i % 8) + 1])

\* the rounded branch of a call: r < min/2, arcs of radius r, lines of positive
\* length, one closed loop; no profile at all when r <= 0
RoundedBranchValid(p, trace) ==
    LET r == RoundedRadius(p.length_x, p.width_y, p.corner_r)
        edges == ProfileEdges(trace)
    IN /\ r > 0 =>
          /\ 2 * r < Min(p.length_x, p.width_y)
          /\ \A i \in 1..Len(edges) :
                /\ edges[i].op = "makeCircle" => edges[i].dims[1] = r
                /\ edges[i].op = "makeLine" => LineLength(edges[i]) > 0
          /\ ClosedLoop(edges)
       /\ r <= 0 => edges = <<>>

C9_SegmentCountAtLeastOne ==
    run.script = "antenna" =>
        LET d == A_Derived(run.p) IN
        /\ d.SECTION_BODY_LENGTH # 0 =>
              d.NUM_SECTIONS = CeilDiv(d.TOTAL_ANTENNA_LENGTH, d.SECTION_BODY_LENGTH)
        /\ KernelCalls(run.trace) # {} => d.NUM_SECTIONS >= 1
        /\ (run.p.MAX_PRINT_HEIGHT <= run.p.JOINT_LENGTH \/ d.TOTAL_ANTENNA_LENGTH <= 0) =>
              run.err # "none" /\ KernelCalls(run.trace) = {}

\* C10: in both sleeve scripts, a parameter set with wall <= 0 makes the build fail:
\* the run ends with an exception and no sleeve object is registered.
C10_NonPositiveWallFailsBuild ==
    (run.script \in SleeveScripts /\ run.p.wall <= 0) =>
        /\ run.err # "none"
        /\ Registrations(run.trace) = {}

\* hole placement and the Hole 1 validation messages of the two mount macros
HolesOf(script, p) == IF script = "mountV1" THEN V1_Holes(p) ELSE V2_Holes(p)

Hole1Errors == {"Hole 1 is too close to edge", "Hole 1 too close to edge"}

\* C11: in both mount scripts min_y = HOLE_DIAMETER/2 + MIN_EDGE_MARGIN_Y (5.675 mm as
\* shipped) and y1 = WIDTH/2 + HOLE_PAIR_SHIFT - HOLE_SPACING_Y/2; a run raises the
\* hole-1 ValueError exactly when y1 < min_y, that raise ends the run before any hole
\* is made, its message carries y1 and min_y (to two decimals), and when y1 >= min_y
\* the run has no hole-1 error.
C11_Hole1RejectedBelowMinY ==
    run.script \in MountScripts =>
        LET h == HolesOf(run.script, run.p)
            hits == {i \in 1..Len(run.trace) :
                        run.trace[i].op = "raise ValueError" /\ run.trace[i].id \in Hole1Errors}
        IN /\ h.min_y = Half(run.p.HOLE_DIAMETER) + run.p.MIN_EDGE_MARGIN_Y
           /\ (run.p.HOLE_DIAMETER = 6350 /\ run.p.MIN_EDGE_MARGIN_Y = 2500) => h.min_y = 5675
           /\ h.y1 = Half(run.p.WIDTH) + run.p.HOLE_PAIR_SHIFT - Half(run.p.HOLE_SPACING_Y)
           /\ (h.y1 < h.min_y) <=> (hits # {})
           /\ \A i \in hits :
                 /\ i = Len(run.trace)
                 /\ run.err = "ValueError"
                 /\ Calls(run.trace, "makeCylinder", "hole1") = {}
                 /\ Abs(run.trace[i].dims[1] - h.y1) <= 5
                 /\ Abs(run.trace[i].dims[2] - h.min_y) <= 5

\* a mount run rejected for hole 1 (y1 = -2.675 mm), and the numbers of its message
C11_Hole1Rejected ==
    /\ run.script = "mountV1"
    /\ run.err = "ValueError"
    /\ V1_Holes(run.p).y1 = -2675
    /\ V1_Holes(run.p).min_y = 5675
    /\ run.trace[Len(run.trace)].id \in Hole1Errors
    /\ run.trace[Len(run.trace)].dims = <<-2670, 5680>>

\* the derived sizes of a sleeve run
SleeveDerived(script, p) == IF script = "sleeveC" THEN C_Derived(p) ELSE E_Derived(p)

\* C12: in both sleeve scripts inner_w = buckle_width + 2*clearance, inner_d =
\* buckle_depth + 2*clearance, outer_w = inner_w + 2*wall, outer_d = inner_d + 2*wall;
\* for buckle_width = 51.6, buckle_depth = 33.3, clearance = 0.8, wall = 2.5 they are
\* 53.2, 34.9, 58.2 and 39.9; and the dimension report of a completed run prints
\* outer_d, outer_w and inner_d, inner_w, to one decimal.
C12_SleeveDimensionDerivation ==
    run.script \in SleeveScripts =>
        LET d == SleeveDerived(run.script, run.p) IN
        /\ d.inner_w = run.p.buckle_width + 2 * run.p.clearance
        /\ d.inner_d = run.p.buckle_depth + 2 * run.p.clearance
        /\ d.outer_w = d.inner_w + 2 * run.p.wall
        /\ d.outer_d = d.inner_d + 2 * run.p.wall
        /\ (/\ run.p.buckle_width = 51600 /\ run.p.buckle_depth = 33300
            /\ run.p.clearance = 800 /\ run.p.wall = 2500) =>
              /\ d = [inner_w |-> 53200, inner_d |-> 34900,
                      outer_w |-> 58200, outer_d |-> 39900]
              /\ \A i \in Calls(run.trace, "print", "Outer dimensions") :
                    SubSeq(run.trace[i].dims, 1, 2) = <<39900, 58200>>
              /\ \A i \in Calls(run.trace, "print", "Inner cavity") :
                    run.trace[i].dims = <<34900, 53200>>
        /\ run.err = "none" =>
              /\ Calls(run.trace, "print", "Outer dimensions") # {}
              /\ Calls(run.trace, "print", "Inner cavity") # {}
        /\ \A i \in Calls(run.trace, "print", "Outer dimensions") :
              /\ Abs(run.trace[i].dims[1] - d.outer_d) <= 50
              /\ Abs(run.trace[i].dims[2] - d.outer_w) <= 50
        /\ \A i \in Calls(run.trace, "print", "Inner cavity") :
              /\ Abs(run.trace[i].dims[1] - d.inner_d) <= 50
              /\ Abs(run.trace[i].dims[2] - d.inner_w) <= 50

\* a C-shape sleeve built with the shipped buckle, clearance and wall, and its report
C12_ShippedSleeveReported ==
    /\ run.script = "sleeveC"
    /\ run.err = "none"
    /\ run.p.buckle_width = 51600 /\ run.p.buckle_depth = 33300
    /\ run.p.clearance = 800 /\ run.p.wall = 2500
    /\ \E i \in Calls(run.trace, "print", "Outer dimensions") :
          run.trace[i].dims = <<39900, 58200, 25000>>
    /\ \E i \in Calls(run.trace, "print", "Inner cavity") :
          run.trace[i].dims = <<34900, 53200>>

\* C13: in the antenna script WAVELENGTH = C_MM_PER_SEC / (TARGET_FREQ_MHZ * 10^6) with
\* C_MM_PER_SEC = 299792458000 (to the micrometre: 299792458 um at 1 MHz) and
\* QUARTER_WAVE_NOMINAL = WAVELENGTH / 4; for TARGET_FREQ_MHZ = 127 the wavelength is
\* within 1 mm of 2360.0 mm and the nominal quarter wave within 1 mm of 590.0 mm.
C13_AntennaLengthDerivation ==
    run.script = "antenna" =>
        LET d == A_Derived(run.p)
            f == run.p.TARGET_FREQ_MHZ
        IN /\ A_C_MM_PER_SEC = 299792458
           /\ d.WAVELENGTH * f <= A_C_MM_PER_SEC
           /\ A_C_MM_PER_SEC < (d.WAVELENGTH + 1) * f
           /\ d.QUARTER_WAVE_NOMINAL * 4 <= d.WAVELENGTH
           /\ d.WAVELENGTH < (d.QUARTER_WAVE_NOMINAL + 1) * 4
           /\ f = 127 =>
                 /\ Abs(d.WAVELENGTH - 2360000) <= 1000
                 /\ Abs(d.QUARTER_WAVE_NOMINAL - 590000) <= 1000

\* an antenna run at 127 MHz that got past the module level and reported its lengths
C13_AntennaAt127MHz ==
    /\ run.script = "antenna"
    /\ run.p.TARGET_FREQ_MHZ = 127
    /\ run.err = "none"
    /\ A_Derived(run.p).WAVELENGTH = 2360570
    /\ A_Derived(run.p).QUARTER_WAVE_NOMINAL = 590142
    /\ Calls(run.trace, "print", "Sleeve") # {}

\* the fillet steps of a script whose radius parameter is 0 in p
DisabledFillets(script, p) ==
    CASE script = "sleeveC" ->
           (IF p.corner_radius = 0 THEN {"vertical"} ELSE {})
           \cup (IF p.top_rim_radius = 0 THEN {"top"} ELSE {})
      [] script = "sleeveEnclosed" ->
           (IF p.top_rim_radius = 0 THEN {"top"} ELSE {})
           \cup (IF p.bottom_rim_radius = 0 THEN {"bottom"} ELSE {})
      [] script \in MountScripts -> IF p.FILLET_RADIUS = 0 THEN {"safe"} ELSE {}
      [] OTHER -> {}

\* the rounded boxes of the enclosed sleeve whose corner radius is 0 in p
SharpBoxes(script, p) ==
    IF script # "sleeveEnclosed" THEN {}
    ELSE (IF p.outer_corner_radius = 0 THEN {"outer"} ELSE {})
         \cup (IF p.inner_corner_radius = 0 THEN {"inner"} ELSE {})

\* C14: in every script with a fillet or corner-rounding step, when the radius of a
\* step is 0 (corner_radius, top_rim_radius, bottom_rim_radius, outer or inner corner
\* radius, FILLET_RADIUS) the run issues no fillet call for that step and builds no
\* rounded profile for that box, the shape is never changed by that step, the run
\* stops only on a configuration error or on a box of non-positive size, and a run
\* that stops on neither registers its object.
C14_RadiusZeroDisablesFillet ==
    (run.script \in SleeveScripts \cup MountScripts
     /\ DisabledFillets(run.script, run.p) \cup SharpBoxes(run.script, run.p) # {}) =>
        /\ \A id \in DisabledFillets(run.script, run.p) :
              /\ Calls(run.trace, "makeFillet", id) = {}
              /\ \A i \in 1..Len(ShapeHistory(run.trace)) :
                    ~(ShapeHistory(run.trace)[i].op = "makeFillet"
                      /\ ShapeHistory(run.trace)[i].id = id)
        /\ \A id \in SharpBoxes(run.script, run.p) :
              /\ Calls(run.trace, "Wire", id) = {}
              /\ Calls(run.trace, "extrude", id) = {}
              /\ Calls(run.trace, "cut", "inner") # {} => Calls(run.trace, "makeBox", id) # {}
        /\ run.err # "none" =>
              LET last == run.trace[Len(run.trace)] IN
              \/ last.op = "raise ValueError"
              \/ last.op = "makeBox" /\ NonPositive(SubSeq(last.dims, 1, 3))
        /\ run.err = "none" =>
              \A name \in PartNames(run.script) :
                 /\ Calls(run.trace, "addObject", name) # {}
                 /\ Copies(Session, name) # {}

\* a mount built with FILLET_RADIUS = 0 on a bracket that has edges safe_fillet would
\* have rounded: no fillet call, and the mount is registered
C14_MountBuiltWithoutFillet ==
    /\ run.script = "mountV1"
    /\ run.p.FILLET_RADIUS = 0
    /\ \E e \in run.k.edges : V1_IsSafeEdge(e)
    /\ run.err = "none"
    /\ Calls(run.trace, "makeFillet", "safe") = {}
    /\ Calls(run.trace, "cut", "hole1") # {}
    /\ Calls(run.trace, "addObject", "WindowCameraMount") # {}

\* the documents of the session that carry the antenna's document name
AntennaDocs == {n \in DOMAIN docs : n[1] = "FlowerpotAntenna_v4"}

\* C15: after a completed run of the antenna macro, first or repeated and whatever
\* document was active when it started, the session holds exactly one document named
\* FlowerpotAntenna_v4, it is the active one, and it holds exactly one object under
\* each part name the run registered (no stale document or part of an earlier run is
\* left beside the new ones).
C15_AntennaRerunKeepsOneDocument ==
    (run.script = "antenna" /\ run.err = "none") =>
        /\ AntennaDocs = {<<"FlowerpotAntenna_v4", 0>>}
        /\ active = <<"FlowerpotAntenna_v4", 0>>
        /\ \A i \in Registrations(run.trace) :
              Copies(Session, run.trace[i].id) = {<<run.trace[i].id, 0>>}

\* the parameters the mount macro and the TPU macro have in common
SharedParameters ==
    {"HORIZONTAL_LENGTH", "INSIDE_FORWARD_SHIFT", "WIDTH",
     "POCKET_X_START", "POCKET_LENGTH", "POCKET_Y_MARGIN",
     "UNDERCUT_X_START", "UNDERCUT_LENGTH", "UNDERCUT_Y_MARGIN"}

\* the mount's parameters as shipped, the shared ones as given to the TPU macro
MountWith(tp) ==
    [f \in DOMAIN V2_Defaults |-> IF f \in SharedParameters THEN tp[f] ELSE V2_Defaults[f]]

\* the box a program makes under an identifier
BoxOf(prog, id) == prog[CHOOSE i \in 1..Len(prog) : prog[i].op = "makeBox" /\ prog[i].id = id]

\* C16: the shared constants are equal as shipped, and for every assignment of the
\* shared parameters given identically to the v2 mount and the v2 TPU macro, the pocket
\* insert's length and width equal those of the mount's top-pocket cutter, and (with
\* TPU_UNDERCUT_MATCH_SLOT, the strip not centred) the strip's length, width and X/Y
\* start equal those of the mount's underside-slot cutter.
C16_TpuInsertsMatchMountCuts ==
    /\ \A f \in SharedParameters : T2_Defaults[f] = V2_Defaults[f]
    /\ (run.script = "tpuV2" /\ run.err = "none") =>
         LET mount == V2_Program(Session, MountWith(run.p), NoKernel)
             pocket == BoxOf(mount, "top_pocket")
             slot == BoxOf(mount, "undercut")
             pad == BoxOf(run.trace, "pad")
             strip == BoxOf(run.trace, "strip")
         IN /\ pad.dims[1] = pocket.dims[1]
            /\ pad.dims[2] = pocket.dims[2]
            /\ (run.p.TPU_UNDERCUT_MATCH_SLOT /\ ~run.p.CENTER_STRIP_IN_X
                  /\ ~run.p.CENTER_STRIP_IN_Y) =>
                 /\ strip.dims[1] = slot.dims[1]
                 /\ strip.dims[2] = slot.dims[2]
                 /\ strip.dims[4] = slot.dims[4]
                 /\ strip.dims[5] = slot.dims[5]

\* the positions of a trace whose call raised and whose exception was caught and ignored
Suppressed(trace) == {i \in 1..Len(trace) : trace[i].fails /\ trace[i].caught}

\* C17: the only kernel calls whose exceptions are caught and ignored are makeFillet
\* calls, and a run that an exception from a primitive or a boolean ended has
\* registered no object.
C17_SuppressionScopedToFillets ==
    /\ \A i \in Suppressed(run.trace) : run.trace[i].op = "makeFillet"
    /\ run.err = "KernelError" => Registrations(run.trace) = {}

\* the fillet steps of a script: the radius of each and the lines it can print
FilletSteps(script, p) ==
    CASE script = "sleeveC" ->
           { [id |-> "vertical", radius |-> p.corner_radius,
              prints |-> {"Fillet on vertical edges failed",
                          "Continuing without vertical fillets"}],
             [id |-> "top", radius |-> p.top_rim_radius,
              prints |-> {"Fillet on top edges failed",
                          "Continuing without top rim fillet"}] }
      [] script = "sleeveEnclosed" ->
           { [id |-> "top", radius |-> p.top_rim_radius,
              prints |-> {"Fillet on top edges failed",
                          "Continuing without top rim fillet"}],
             [id |-> "bottom", radius |-> p.bottom_rim_radius,
              prints |-> {"Fillet on bottom edges failed",
                          "Continuing without bottom rim fillet"}] }
      [] script \in MountScripts ->
           { [id |-> "safe", radius |-> p.FILLET_RADIUS,
              prints |-> {"Note: No safe edges detected for fillet; skipping fillet",
                          "Note: Fillet failed; skipping fillet"}] }
      [] OTHER -> {}

\* the fillet step was applied: its kernel call was made and did not raise
FilletApplied(trace, id) ==
    \E i \in Calls(trace, "makeFillet", id) : ~trace[i].fails

\* C18: in a completed run of a script with a fillet step, every step with a radius
\* above 0 whose fillet was not applied (no candidate edge, or the kernel's call raised)
\* has printed a line to the log.
C18_FilletFailuresLogged ==
    run.err = "none" =>
        \A st \in FilletSteps(run.script, run.p) :
            (st.radius > 0 /\ ~FilletApplied(run.trace, st.id)) =>
                \E m \in st.prints : Calls(run.trace, "print", m) # {}

\* the statements in which a script's cutters are made: the run's trace, and for the
\* antenna one tube section
CutterStatements ==
    IF run.script = "antenna"
    THEN IF Calls(run.trace, "makeCylinder", "main_tube") = {}
         THEN <<>> ELSE create_tube_section(run.p, FALSE, FALSE)
    ELSE run.trace

\* where a cutter begins and how far it reaches along an axis (1 = X, 2 = Y, 3 = Z):
\* the place it is made at, moved by the translate that follows it, and its size
CutterFrom(stmts, i, axis) ==
    (CASE stmts[i].op = "makeBox" -> stmts[i].dims[3 + axis]
       [] stmts[i].op = "makeCylinder" -> stmts[i].dims[2 + axis]
       [] OTHER -> 0)
    + (IF i < Len(stmts) /\ stmts[i + 1].op = "translate" /\ stmts[i + 1].id = stmts[i].id
       THEN stmts[i + 1].dims[axis] ELSE 0)

CutterTo(stmts, i, axis) ==
    CutterFrom(stmts, i, axis)
    + (CASE stmts[i].op = "makeBox" -> stmts[i].dims[axis]
         [] stmts[i].op = "makeCylinder" -> stmts[i].dims[2]
         [] stmts[i].op = "makeCone" -> stmts[i].dims[3]
         [] OTHER -> stmts[i].dims[1])

Through(id, op, axis, side, face) ==
    [id |-> id, op |-> op, axis |-> axis, side |-> side, face |-> face]

\* the faces of the solid that the cutters of a script open through: the sleeve's
\* bottom and top and its slotted side; the horizontal arm's top and underside and the
\* outside arm's two sides; the top of a tube section
OpenFaces(script, p) ==
    CASE script = "sleeveC" ->
           { Through(id, "makeBox", 3, side, IF side = "low" THEN 0 ELSE p.sleeve_height) :
               id \in {"inner", "slot_cutter"}, side \in {"low", "high"} }
           \cup { IF p.slot_side = "right"
                  THEN Through("slot_cutter", "makeBox", 2, "high", C_Derived(p).outer_w)
                  ELSE Through("slot_cutter", "makeBox", 2, "low", 0) }
      [] script = "sleeveEnclosed" ->
           { Through("inner", op, 3, side, IF side = "low" THEN 0 ELSE p.sleeve_height) :
               op \in {"makeBox", "extrude"}, side \in {"low", "high"} }
      [] script \in MountScripts ->
           { Through("top_pocket", "makeBox", 3, "high", p.HORIZONTAL_THICKNESS),
             Through("bottom_pocket", "makeBox", 3, "low", 0),
             Through("undercut", "makeBox", 3, "low", 0) }
           \cup { Through(id, "makeCylinder", 1, "low",
                          p.HORIZONTAL_LENGTH - p.OUTSIDE_THICKNESS) : id \in {"hole1", "hole2"} }
           \cup { Through(id, "makeCylinder", 1, "high", p.HORIZONTAL_LENGTH) :
                    id \in {"hole1", "hole2"} }
      [] script = "antenna" ->
           { Through("female_socket", "makeCylinder", 3, "high",
                     A_Derived(p).ACTUAL_SECTION_LENGTH),
             Through("chamfer_cone", "makeCone", 3, "high",
                     A_Derived(p).ACTUAL_SECTION_LENGTH) }
      [] OTHER -> {}

\* the cutter made at position i passes the face f by a positive margin
PassesFace(stmts, i, f) ==
    IF f.side = "low" THEN CutterFrom(stmts, i, f.axis) < f.face
    ELSE CutterTo(stmts, i, f.axis) > f.face

\* C19: in a completed run, every cutter extends beyond each face of the solid that its
\* cut opens through by a strictly positive margin; no cutter face lies in that face.
C19_CuttersOversized ==
    run.err = "none" =>
        \A f \in OpenFaces(run.script, run.p) :
            {i \in 1..Len(CutterStatements) :
                /\ CutterStatements[i].op = f.op
                /\ CutterStatements[i].id = f.id
                /\ ~PassesFace(CutterStatements, i, f)} = {}

\* the first statement of a program that makes the shape of an identifier
MadeAs(prog, op, id) == CHOOSE i \in 1..Len(prog) :
    /\ prog[i].op = op /\ prog[i].id = id
    /\ \A j \in 1..(i - 1) : ~(prog[j].op = op /\ prog[j].id = id)

\* a point lies strictly inside a box
InBox(b, pt) ==
    \A axis \in 1..3 : b.dims[3 + axis] < pt[axis] /\ pt[axis] < b.dims[3 + axis] + b.dims[axis]

\* points of a millimetre grid strictly inside a cylinder about a vertical axis
PointsInBore(c) ==
    { pt \in {k * 1000 : k \in -5..5} \X {k * 1000 : k \in -5..5} \X {k * 1000 : k \in 0..50} :
        /\ (pt[1] - c.dims[3]) * (pt[1] - c.dims[3])
             + (pt[2] - c.dims[4]) * (pt[2] - c.dims[4]) < c.dims[1] * c.dims[1]
        /\ c.dims[5] < pt[3] /\ pt[3] < c.dims[5] + c.dims[2] }

\* the bottom cap's vertical coax routing bore holds no material of the cable-tie
\* anchor (the anchor box less its tie slot), which is fused after the bore is cut
VerticalBoreClear(p) ==
    LET cap == create_bottom_cap(p)
        bore == cap[MadeAs(cap, "makeCylinder", "coax_up")]
        anchor == BoxOf(cap, "anchor")
        slot == BoxOf(cap, "slot")
    IN \A pt \in PointsInBore(bore) : ~(InBox(anchor, pt) /\ ~InBox(slot, pt))

\* the solids of a program that are made after position n and fused into the part
FusedAfter(prog, n) ==
    { i \in (n + 1)..Len(prog) :
        /\ prog[i].op \in {"makeBox", "makeCylinder"}
        /\ \E j \in (i + 1)..Len(prog) : prog[j].op = "fuse" /\ prog[j].id = prog[i].id }

\* the female socket and keyway of a tube section lie above every solid fused after
\* they are cut (male plug, key, liner, lip)
SocketClear(p, is_sleeve, is_fp) ==
    LET sec == create_tube_section(p, is_sleeve, is_fp)
        socket == MadeAs(sec, "makeCylinder", "female_socket")
        keyway == MadeAs(sec, "makeBox", "keyway")
    IN \A i \in FusedAfter(sec, keyway) :
          /\ CutterTo(sec, i, 3) <= CutterFrom(sec, socket, 3)
          /\ CutterTo(sec, i, 3) <= CutterFrom(sec, keyway, 3)

\* C20: in the parts an antenna run has built, no feature that was cut is filled back
\* by a solid fused later: the socket and keyway of every tube section stay clear, and
\* the vertical coax routing bore of the bottom cap is not obstructed by the cable-tie
\* anchor.
C20_CutsNotFilledBack ==
    run.script = "antenna" =>
        /\ Calls(run.trace, "makeCylinder", "main_tube") # {} =>
              \A is_sleeve, is_fp \in BOOLEAN : SocketClear(run.p, is_sleeve, is_fp)
        /\ Calls(run.trace, "addObject", "BottomCap") # {} => VerticalBoreClear(run.p)

\* the vertical edges at the four outer corners of the C-shape sleeve
OuterCornerEdges == {"corner", "corner_x", "corner_y", "far_corner"}

\* C21: in a run of the C-shape sleeve with positive dimensions, every edge handed to
\* the corner fillet is longer than 0.8 * sleeve_height, has X and Y extent below 0.1 mm
\* and lies within wall/2 of an outer corner in X and in Y; and the edges handed over
\* are outer-corner edges only, never an edge of the cavity or of the side slot.
C21_OnlyOuterCornersSelected ==
    (run.script = "sleeveC" /\ run.p.wall > 0) =>
        \A i \in Calls(run.trace, "makeFillet", "vertical") :
            /\ \A e \in run.k.edges : e.id \in run.trace[i].sel => C_IsCornerEdge(e, run.p)
            /\ run.trace[i].sel \subseteq OuterCornerEdges

\* the positions in a trace where a drain-hole cutter is made, and the rank of one
DrainCutters(trace) == Calls(trace, "makeCylinder", "drain")

DrainIndex(trace, i) == Cardinality({j \in DrainCutters(trace) : j < i})

\* C22: a run that has built the bottom cap has made and cut exactly NUM_DRAIN_HOLES
\* drain cutters; cutter i is centred at the angle 45 + i * (360 / NUM_DRAIN_HOLES)
\* degrees on the circle of radius OUTER_R - WALL_THICKNESS, and the angles of the
\* cutters are pairwise distinct modulo 360.
C22_DrainHolesEvenlySpaced ==
    (run.script = "antenna" /\ Calls(run.trace, "addObject", "BottomCap") # {}) =>
        LET n == run.p.NUM_DRAIN_HOLES
            r == A_Derived(run.p).OUTER_R - run.p.WALL_THICKNESS
            step == 360 \div n
        IN /\ Cardinality(DrainCutters(run.trace)) = n
           /\ Cardinality(Calls(run.trace, "cut", "drain")) = n
           /\ \A i \in DrainCutters(run.trace) :
                LET angle == 45 + DrainIndex(run.trace, i) * step
                IN /\ run.trace[i].dims[3] = Scaled(r, Cos10k(angle))
                   /\ run.trace[i].dims[4] = Scaled(r, Sin10k(angle))
           /\ \A i, j \in 0..(n - 1) :
                i # j => (45 + i * step) % 360 # (45 + j * step) % 360
           /\ \A i, j \in DrainCutters(run.trace) :
                i # j => <<run.trace[i].dims[3], run.trace[i].dims[4]>>
                           # <<run.trace[j].dims[3], run.trace[j].dims[4]>>

\* a bottom cap with six drain holes has been built
C22_SixDrainHolesCut ==
    /\ run.script = "antenna" /\ run.err = "none"
    /\ run.p.NUM_DRAIN_HOLES = 6
    /\ Cardinality(DrainCutters(run.trace)) = 6

\* a drain-hole cutter of the bottom cap lies within the outer wall: its centre, on the
\* circle of radius OUTER_R - WALL_THICKNESS, is at least its radius inside OUTER_R
DrainHoleInside(p, c) ==
    (A_Derived(p).OUTER_R - p.WALL_THICKNESS) + c.dims[1] <= A_Derived(p).OUTER_R

\* a guy-wire hole drilled through the lip of the v2 mount lies within the lip in X
\* (INSIDE_THICKNESS .. INSIDE_THICKNESS + LIP_LENGTH) and within the width in Y
GuyTopHoleInside(p, c) ==
    /\ p.INSIDE_THICKNESS <= c.dims[3] - c.dims[1]
    /\ c.dims[3] + c.dims[1] <= p.INSIDE_THICKNESS + p.LIP_LENGTH
    /\ 0 <= c.dims[4] - c.dims[1]
    /\ c.dims[4] + c.dims[1] <= p.WIDTH

\* C23: no repeated hole is cut unless it lies inside the surrounding material by at
\* least its radius: every drain-hole cutter of the bottom cap inside the outer wall,
\* every top guy-wire hole of the v2 mount inside the lip in X and in Y (a build that
\* would place one outside is rejected before the hole is made).
C23_RepeatedHolesKeepMargin ==
    /\ run.script = "antenna" =>
         \A i \in Calls(run.trace, "makeCylinder", "drain") :
            DrainHoleInside(run.p, run.trace[i])
    /\ run.script = "mountV2" =>
         \A i \in Calls(run.trace, "makeCylinder", "guy_top_L")
                    \cup Calls(run.trace, "makeCylinder", "guy_top_R") :
            GuyTopHoleInside(run.p, run.trace[i])

\* the heights at which a trace makes the outer cylinder of an indicator-mark cutter
MarkHeights(trace, p) ==
    { trace[i].dims[5] : i \in { j \in Calls(trace, "makeCylinder", "mark_cutter") :
                                   trace[j].dims[1] = A_Derived(p).OUTER_R + 100 } }

\* mark_z of mark i
MarkZ(p, i) == (A_Derived(p).ACTUAL_SECTION_LENGTH - p.JOINT_LENGTH - 15000) - 5000 - 4000 * i

\* C24: in an antenna run the indicator marks cut are those of i = 0, 1, 2 whose
\* mark_z = (groove_z - 5) - 4 * i lies above JOINT_LENGTH + 5, with
\* groove_z = ACTUAL_SECTION_LENGTH - JOINT_LENGTH - 15: no mark is cut at or below
\* JOINT_LENGTH + 5, and the marks cut are a prefix of 0, 1, 2.
C24_IndicatorMarksWithinSpan ==
    run.script = "antenna" =>
        LET cut_at == MarkHeights(run.trace, run.p) IN
        /\ \A z \in cut_at : z > run.p.JOINT_LENGTH + 5000
        /\ cut_at \subseteq {MarkZ(run.p, i) : i \in 0..2}
        /\ Calls(run.trace, "makeCylinder", "groove_cutter") # {} =>
              cut_at = {MarkZ(run.p, i) : i \in {j \in 0..2 : MarkZ(run.p, j) > run.p.JOINT_LENGTH + 5000}}
        /\ \A i \in 0..2 : MarkZ(run.p, i) \in cut_at =>
              \A j \in 0..i : MarkZ(run.p, j) \in cut_at

\* a feedpoint section has been built with its first two marks and without the third
C24_TwoMarksCut ==
    /\ run.script = "antenna" /\ run.err = "none"
    /\ MarkHeights(run.trace, run.p) = {MarkZ(run.p, 0), MarkZ(run.p, 1)}
    /\ MarkZ(run.p, 2) <= run.p.JOINT_LENGTH + 5000

\* the largest radius the edges of a fillet step can take: half the smaller outer side
\* for the corner fillet of the C-shape sleeve, the wall for a rim fillet, the thinnest
\* plate for the mount fillet
MaxFeasibleRadius(script, p, id) ==
    CASE script = "sleeveC" /\ id = "vertical" ->
           Half(Min(C_Derived(p).outer_d, C_Derived(p).outer_w))
      [] script \in SleeveScripts -> p.wall
      [] OTHER -> Min(p.HORIZONTAL_THICKNESS, Min(p.INSIDE_THICKNESS, p.OUTSIDE_THICKNESS))

\* C25: in every script the radius handed to the kernel's fillet call is at most the
\* largest feasible radius of the edges it is applied to (sleeves with a positive
\* wall); a larger requested radius is reduced to it before the call.
C25_FilletRadiusClamped ==
    (run.script \in MountScripts \/ (run.script \in SleeveScripts /\ run.p.wall > 0)) =>
        \A i \in 1..Len(run.trace) :
            run.trace[i].op = "makeFillet" =>
                run.trace[i].dims[1] <= MaxFeasibleRadius(run.script, run.p, run.trace[i].id)

\* the shapes the antenna macro builds with make_tube
TubeIds == {"main_tube", "male_plug", "liner", "lip", "groove_cutter", "mark_cutter",
            "ring", "clamp"}

\* the positions of a trace where make_tube makes its outer cylinder: the inner one
\* follows under the same identifier, when the outer one did not raise
TubesMade(trace) ==
    { i \in 1..(Len(trace) - 1) :
        /\ trace[i].op = "makeCylinder" /\ trace[i].id \in TubeIds
        /\ trace[i + 1].op = "makeCylinder" /\ trace[i + 1].id = trace[i].id
        /\ trace[i + 1].dims[2] = trace[i].dims[2] + 2000 }

\* C26: in an antenna run whose parameters validate_parameters has accepted, every
\* make_tube call has 0 < inner_r < outer_r.
C26_ValidationCoversEveryTube ==
    (run.script = "antenna" /\ run.err # "ValueError") =>
        \A i \in TubesMade(run.trace) :
            /\ 0 < run.trace[i + 1].dims[1]
            /\ run.trace[i + 1].dims[1] < run.trace[i].dims[1]

\* the names under which a trace registers objects
RegisteredNames(trace) == {trace[i].id : i \in Registrations(trace)}

\* C27: in a completed antenna run 1 <= SLEEVE_SECTIONS <= NUM_SECTIONS; exactly
\* NUM_SECTIONS sections are registered, section i named as a sleeve section exactly
\* when i < SLEEVE_SECTIONS and as the feedpoint section exactly when
\* i = SLEEVE_SECTIONS - 1; the liner is built for the sleeve sections and the clamp
\* groove for the one feedpoint section; and the names registered are pairwise distinct,
\* NUM_SECTIONS + 8 objects in all.
C27_SectionRolesAndNames ==
    (run.script = "antenna" /\ run.err = "none") =>
        LET d == A_Derived(run.p)
            names == RegisteredNames(run.trace)
        IN /\ 1 <= d.SLEEVE_SECTIONS /\ d.SLEEVE_SECTIONS <= d.NUM_SECTIONS
           /\ Cardinality(Registrations(run.trace)) = d.NUM_SECTIONS + 8
           /\ Cardinality(names) = d.NUM_SECTIONS + 8
           /\ \A i \in 0..(d.NUM_SECTIONS - 1) :
                SectionName(i, i < d.SLEEVE_SECTIONS, i = d.SLEEVE_SECTIONS - 1) \in names
           /\ {"BottomCap", "TopCap", "CoaxGuide_1", "CoaxGuide_2", "CoaxGuide_3",
               "CoaxGuide_4", "FeedpointClamp", "SleeveGauge"} \subseteq names
           /\ Cardinality(Calls(run.trace, "fuse", "liner")) = d.SLEEVE_SECTIONS
           /\ Cardinality(Calls(run.trace, "cut", "groove")) = 1

(***************************************************************************)
(* C28: in both mount macros, whatever the pocket and undercut parameters  *)
(* are (negative, zero, oversized), a pocket cutter handed to Part.makeBox *)
(* is at least 1 mm long, 1 mm wide and 0.1 mm deep, and the underside     *)
(* slot of the second macro at least 2 mm long, 1 mm wide and 0.1 mm deep: *)
(* no cutter is a box of zero or negative size.                            *)
(***************************************************************************)
\* the pocket and slot cutters a run made
PocketCutters(trace) ==
    { i \in 1..Len(trace) :
        /\ trace[i].op = "makeBox"
        /\ trace[i].id \in {"top_pocket", "bottom_pocket", "undercut"} }

\* the least length of a cutter: 2 mm for the underside slot, 1 mm for a pocket
LeastCutterLength(id) == IF id = "undercut" THEN 2000 ELSE 1000

C28_MountCuttersNotDegenerate ==
    (run.script \in {"mountV1", "mountV2"} /\ run.err # "pending") =>
        { i \in PocketCutters(run.trace) :
            ~ /\ run.trace[i].dims[1] >= LeastCutterLength(run.trace[i].id)
              /\ run.trace[i].dims[2] >= 1000
              /\ run.trace[i].dims[3] >= 100
              /\ ~run.trace[i].fails } = {}

\* a run whose pocket length is negative and whose pocket depth is not positive
\* cut a top pocket exactly 1 mm long and 0.1 mm deep
C28_NegativePocketCutAtFloor ==
    /\ run.script \in {"mountV1", "mountV2"}
    /\ run.err = "none"
    /\ run.p.POCKET_LENGTH < 0
    /\ run.p.POCKET_DEPTH <= 0
    /\ run.p.POCKET_Y_MARGIN > run.p.WIDTH \div 2
    /\ \E i \in PocketCutters(run.trace) :
         /\ run.trace[i].id = "top_pocket"
         /\ run.trace[i].dims[1] = 1000
         /\ run.trace[i].dims[2] = 1000
         /\ run.trace[i].dims[3] = 100

(***************************************************************************)
(* C29: in both mount macros, when HORIZONTAL_THICKNESS exceeds the        *)
(* configured minimum floor, the thickness of the horizontal arm left at   *)
(* every (x, y) after all the enabled cuts (top pocket, bottom pocket,     *)
(* underside slot) is positive and at least the configured minimum floor   *)
(* (MIN_FLOOR_THICKNESS under a pocket, UNDERCUT_MIN_FLOOR under the       *)
(* slot), also where a top cut and a bottom cut overlap in X/Y.            *)
(***************************************************************************)
\* the pocket and slot cutters a run cut out of the bracket
ArmCutters(trace) ==
    { i \in PocketCutters(trace) :
        \E j \in (i + 1)..Len(trace) : trace[j].op = "cut" /\ trace[j].id = trace[i].id }

\* the footprint of a box holds (x, y)
Covers(b, x, y) ==
    /\ b.dims[4] <= x /\ x < b.dims[4] + b.dims[1]
    /\ b.dims[5] <= y /\ y < b.dims[5] + b.dims[2]

\* one point of every region the footprints of the cutters divide the arm into:
\* the first and the last micrometre of each cutter along an axis
SampleAlong(trace, axis) ==
    UNION { {trace[i].dims[3 + axis], trace[i].dims[3 + axis] + trace[i].dims[axis] - 1} :
              i \in ArmCutters(trace) }

\* the depth cut at (x, y) by the cutter of an identifier, 0 where it does not reach
DepthAt(trace, id, x, y) ==
    IF \E i \in ArmCutters(trace) : trace[i].id = id /\ Covers(trace[i], x, y)
    THEN BoxOf(trace, id).dims[3]
    ELSE 0

\* the arm's material left at (x, y): the top pocket is cut from the top face, the
\* bottom pocket and the underside slot from the bottom face
ThicknessLeft(trace, p, x, y) ==
    p.HORIZONTAL_THICKNESS - DepthAt(trace, "top_pocket", x, y)
        - Max(DepthAt(trace, "bottom_pocket", x, y), DepthAt(trace, "undercut", x, y))

\* the minimum floor configured for a cutter
ConfiguredFloor(p, id) ==
    IF id = "undercut" THEN p.UNDERCUT_MIN_FLOOR ELSE p.MIN_FLOOR_THICKNESS

C29_FloorLeftUnderCuts ==
    (/\ run.script \in {"mountV1", "mountV2"}
     /\ run.err = "none"
     /\ \A i \in ArmCutters(run.trace) :
          run.p.HORIZONTAL_THICKNESS > ConfiguredFloor(run.p, run.trace[i].id))
    => { pt \in SampleAlong(run.trace, 1) \X SampleAlong(run.trace, 2) :
           /\ Covers(BoxOf(run.trace, "horizontal"), pt[1], pt[2])
           /\ \E i \in ArmCutters(run.trace) : Covers(run.trace[i], pt[1], pt[2])
           /\ ~ /\ ThicknessLeft(run.trace, run.p, pt[1], pt[2]) > 0
                 /\ \E i \in ArmCutters(run.trace) :
                      /\ Covers(run.trace[i], pt[1], pt[2])
                      /\ ThicknessLeft(run.trace, run.p, pt[1], pt[2])
                           >= ConfiguredFloor(run.p, run.trace[i].id) } = {}

(***************************************************************************)
(* C30: for every parameter set validate_parameters accepts, each drain    *)
(* cutter of the bottom cap overlaps the internal cavity (the cutter's     *)
(* nearest side to the axis, (OUTER_R - WALL_THICKNESS) - DRAIN_HOLE_DIA/2,*)
(* is inside the cavity radius INNER_R - WALL_THICKNESS, and the cutter    *)
(* rises above the cavity's floor at z = WALL_THICKNESS) and stays inside  *)
(* the outer wall: (OUTER_R - WALL_THICKNESS) + DRAIN_HOLE_DIA/2 < OUTER_R.*)
(***************************************************************************)
\* the cavity cylinder made last before a position of a trace
CavityBefore(trace, i) ==
    trace[CHOOSE j \in Calls(trace, "makeCylinder", "cavity") :
            /\ j < i
            /\ \A k \in Calls(trace, "makeCylinder", "cavity") : k < i => k <= j]

\* two cylinders about vertical axes share a volume: a cutter c off the Z axis and a
\* cavity on it
OverlapsCavity(c, cavity) ==
    /\ cavity.dims[1] + c.dims[1] > 0
    /\ c.dims[3] * c.dims[3] + c.dims[4] * c.dims[4]
         < (cavity.dims[1] + c.dims[1]) * (cavity.dims[1] + c.dims[1])
    /\ c.dims[5] < cavity.dims[5] + cavity.dims[2]
    /\ cavity.dims[5] < c.dims[5] + c.dims[2]

C30_DrainHolesOpenIntoCavity ==
    (run.script = "antenna" /\ Calls(run.trace, "addObject", "BottomCap") # {}) =>
        LET d == A_Derived(run.p)
        IN { i \in DrainCutters(run.trace) :
               ~ /\ OverlapsCavity(run.trace[i], CavityBefore(run.trace, i))
                 /\ (d.OUTER_R - run.p.WALL_THICKNESS) - run.trace[i].dims[1]
                      < d.INNER_R - run.p.WALL_THICKNESS
                 /\ (d.OUTER_R - run.p.WALL_THICKNESS) + run.trace[i].dims[1] < d.OUTER_R } = {}

====
